---------------------------- MODULE Spec2Model ----------------------------
(***************************************************************************)
(* A model of the ebbflow ACSL build pipeline and run loop:                *)
(*   - FunctionParser / AcslSort       (build/sort)                        *)
(*   - IntegFunctionCreator            (build/ast_visitors)                *)
(*   - ConstantManager, AcslBuild      (build)                             *)
(*   - AcslRun, AcslLib, IntegrationManager (run, integration)             *)
(* Each subsystem has its own variables and its own specification; the     *)
(* variables of the other subsystems stay at their initial values.         *)
(***************************************************************************)
EXTENDS Integers, Sequences, FiniteSets, TLC

VARIABLES
    \* ---- FunctionParser / AcslSort ----
    section,            \* the authored body: a sequence of statement nodes
    variable_map,       \* FunctionParser.variable_map (insertion-ordered dict)
    expr_map,           \* FunctionParser.expr_map
    state_variables,    \* FunctionParser.state_variables
    variables_to_sort,  \* AcslSort.sort: the set of names still to order
    calculation_order,  \* AcslSort.calculation_order (ordered keys)
    sorted_tree,        \* the module emitted by _build_sorted_ast
    sortPhase,          \* position of AcslSort.sort
    sortError,          \* the exception AcslSort.sort raised, if any
    firstPass,          \* result of the sort of the section before a re-submission
    \* ---- IntegFunctionCreator ----
    synthPhase,         \* position of IntegFunctionCreator.visit
    synth_constants,    \* IntegFunctionCreator.constants
    assignments,        \* IntegFunctionCreator.assignments
    integ_vars,         \* the (diff_var, state_var) pairs of _detect_integ_calls
    call_index,         \* the pair _create_dependency_map is working on
    dependencies,       \* the local dict of _create_dependency_map
    calc_order,         \* its counter
    calculated_vars,    \* its set of visited names
    var_to_calc,        \* its cursor ("None" when the walk is over)
    all_dependencies,   \* IntegFunctionCreator.dependencies
    deriv_functions,    \* the result of visit: deriv name -> kernel
    \* ---- ConstantManager / AcslBuild ----
    constants,          \* ConstantManager.constants: name -> value
    set_call,           \* the arguments of the latest set_constant call
    coordError,         \* the exception build raised, if any
    callerCINT,         \* the CINT argument of AcslBuild (None when omitted)
    integration_settings, \* what the settings collector read in DYNAMIC
    CINT,               \* AcslBuild.CINT
    buildPhase,         \* position of AcslBuild.build
    \* ---- AcslRun / AcslLib / IntegrationManager ----
    TSTP,               \* AcslRun.TSTP
    run_CINT,           \* AcslRun.CINT and IntegrationManager.CINT
    NSTP,               \* IntegrationManager.NSTP
    MAXT,               \* IntegrationManager.MAXT
    step_size,          \* IntegrationManager.step_size
    statevars,          \* AcslRun.statevars: state variable -> initial condition
    run_constants,      \* AcslRun.constants
    t,                  \* AcslRun.t
    previous_section_scope, \* AcslLib.previous_section_scope
    arguments,          \* the keyword arguments of the latest DERIVATIVE call
    results,            \* AcslRun.results, one row per step
    final_results,      \* what run returns
    runPhase,           \* position of AcslRun.run
    \* ---- ACSL (model construction) ----
    members,            \* the decorated methods of the model class, by name order
    member_index,       \* the member _validate_sections looks at next
    found_sections,     \* the local set of _validate_sections
    section_mapping,    \* ACSL._section_mapping
    sections_to_sort,   \* ACSL._sections_to_sort
    modelError,         \* the exception the constructor raised, if any
    modelPhase,         \* position of ACSL.__init__
    \* ---- IntegrationManager (one integration request) ----
    IALG,               \* IntegrationManager.IALG
    derivative_functions, \* IntegrationManager.derivative_functions
    integ_request,      \* the arguments of the integrate call
    kernel_calls,       \* the keyword arguments of every kernel call, in order
    integ_return,       \* what integrate returned
    managerError,       \* the exception the manager raised, if any
    managerPhase,       \* "new", "ready", "raised", "returned" or "failed"
    \* ---- the reported columns ----
    report,             \* AcslBuild's report argument
    report_statevars,   \* the names of the state variables of the model
    variables_to_report, \* AcslBuild.variables_to_report, then AcslRun's
    columns,            \* the columns of AcslRun.results
    reportError,        \* the exception raised, if any
    reportPhase,        \* "called", "built", "constructed" or "raised"
    \* ---- the initial dry run of the sections ----
    dry_derivative,     \* the body of the DERIVATIVE function
    dry_dynamic,        \* the body of the DYNAMIC function
    dry_constants,      \* the names of AcslRun.constants
    dry_statevars,      \* AcslRun.statevars: state variable -> name of its IC
    dry_failed,         \* the section whose call raised, "" if none
    dryError,           \* the exception run lets out, if any
    dryPhase,           \* "constructed", "derivative", "initialized", "raised"
    \* ---- a model with two coupled state variables ----
    derivative_body,    \* the sorted body of its DERIVATIVE section
    \* the invocations of the section callables made by AcslRun.run
    section_calls,      \* sequence of [section, arguments, at]
    \* ConstantManager, with the element types of list values
    constant_table,     \* the dict constants: sequence of [name, value]
    tableError,         \* what the last ingestion raised
    tablePhase,         \* "new", "collecting", "failed"
    \* one delay call site of AcslLib and its DelayBuffer
    buffer,             \* rows [time, value] of DelayBuffer.buffer
    head,
    tail,
    actual_data_points,
    max_size,
    buffer_ic,
    adds,               \* number of calls of DelayBuffer.add so far
    lookup,             \* the last get_delayed_value: [current_time, tdl, outcome]
    delay_buffers,      \* TRUE when delay_id is a key of _delay_buffers
    last_updated_time,  \* buffer_info["last_updated_time"]
    last_update_time,   \* buffer_info["last_update_time"]
    lib_t,              \* self.t
    lib_step_size,      \* self.step_size
    delay_site,         \* [tdl, nmx, delmin, has_id] written at the call site
    delayError,
    \* the frame of a running section, as AcslLib.integ inspects it
    frame_body,         \* the statements of the section
    frame_pc,           \* index of the next statement
    f_locals,           \* frame.f_locals: sequence of [name, obj, ty, v]
    next_obj,           \* identity of the next object created
    integ_requests,     \* [written, deriv_name] of every integ call so far
    frameError

sortVars == <<section, variable_map, expr_map, state_variables,
              variables_to_sort, calculation_order, sorted_tree,
              sortPhase, sortError, firstPass>>

synthVars == <<synthPhase, synth_constants, assignments, integ_vars, call_index,
               dependencies, calc_order, calculated_vars, var_to_calc,
               all_dependencies, deriv_functions>>

coordVars == <<constants, set_call, coordError, callerCINT,
               integration_settings, CINT, buildPhase>>

runVars == <<TSTP, run_CINT, NSTP, MAXT, step_size, statevars, run_constants,
             t, previous_section_scope, arguments, results, final_results,
             runPhase>>

modelVars == <<members, member_index, found_sections, section_mapping,
               sections_to_sort, modelError, modelPhase>>

managerVars == <<IALG, derivative_functions, integ_request, kernel_calls, integ_return, managerError, managerPhase>>

reportVars == <<report, report_statevars, variables_to_report, columns, reportError, reportPhase>>

dryVars == <<dry_derivative, dry_dynamic, dry_constants, dry_statevars, dry_failed, dryError, dryPhase>>

coupledVars == <<derivative_body>>

traceVars == <<section_calls>>

tableVars == <<constant_table, tableError, tablePhase>>

delayVars == <<buffer, head, tail, actual_data_points, max_size, buffer_ic, adds, lookup, delay_buffers, last_updated_time, last_update_time, lib_t, lib_step_size, delay_site, delayError>>

frameVars == <<frame_body, frame_pc, f_locals, next_obj, integ_requests, frameError>>

\* what the actions of one subsystem leave alone
notRunNorTrace == <<sortVars, synthVars, coordVars, modelVars, reportVars, dryVars, coupledVars, managerVars, tableVars, delayVars, frameVars>>
notRunNorManager == <<sortVars, synthVars, coordVars, modelVars, reportVars, dryVars, coupledVars, traceVars, tableVars, delayVars, frameVars>>
notSort == <<synthVars, coordVars, runVars, modelVars, managerVars, reportVars, dryVars, coupledVars, traceVars, tableVars, delayVars, frameVars>>
notSynth == <<sortVars, coordVars, runVars, modelVars, managerVars, reportVars, dryVars, coupledVars, traceVars, tableVars, delayVars, frameVars>>
notCoord == <<sortVars, synthVars, runVars, modelVars, managerVars, reportVars, dryVars, coupledVars, traceVars, tableVars, delayVars, frameVars>>
notRun == <<sortVars, synthVars, coordVars, modelVars, managerVars, reportVars, dryVars, coupledVars, traceVars, tableVars, delayVars, frameVars>>
notModel == <<sortVars, synthVars, coordVars, runVars, managerVars, reportVars, dryVars, coupledVars, traceVars, tableVars, delayVars, frameVars>>
notManager == <<sortVars, synthVars, coordVars, runVars, modelVars, reportVars, dryVars, coupledVars, traceVars, tableVars, delayVars, frameVars>>
notReport == <<sortVars, synthVars, coordVars, runVars, modelVars, managerVars, dryVars, coupledVars, traceVars, tableVars, delayVars, frameVars>>
notDry == <<sortVars, synthVars, coordVars, runVars, modelVars, managerVars, reportVars, coupledVars, traceVars, tableVars, delayVars, frameVars>>
notCoupled == <<sortVars, synthVars, coordVars, runVars, modelVars, managerVars, reportVars, dryVars, traceVars, tableVars, delayVars, frameVars>>
notTrace == <<sortVars, synthVars, coordVars, runVars, modelVars, managerVars, reportVars, dryVars, coupledVars, tableVars, delayVars, frameVars>>
notTable == <<sortVars, synthVars, coordVars, runVars, modelVars, managerVars, reportVars, dryVars, coupledVars, traceVars, delayVars, frameVars>>
notDelay == <<sortVars, synthVars, coordVars, runVars, modelVars, managerVars, reportVars, dryVars, coupledVars, traceVars, tableVars, frameVars>>
notFrame == <<sortVars, synthVars, coordVars, runVars, modelVars, managerVars, reportVars, dryVars, coupledVars, traceVars, tableVars, delayVars>>

(***************************************************************************)
(* Syntax trees.  Every expression node is a record [op, id, args]; every  *)
(* statement node a record [node, targets, value, name, params].           *)
(***************************************************************************)
Name(n) == [op |-> "Name", id |-> n, args |-> <<>>]
Num(n) == [op |-> "Constant", id |-> n, args |-> <<>>]
BinOp(l, r) == [op |-> "BinOp", id |-> "+", args |-> <<l, r>>]
UnaryOp(e) == [op |-> "UnaryOp", id |-> "-", args |-> <<e>>]
Subscript(v, s) == [op |-> "Subscript", id |-> "[]", args |-> <<v, s>>]
TupleNode(es) == [op |-> "Tuple", id |-> "()", args |-> es]
\* a call self.<f>(args...) or <f>(args...); no keyword arguments
Call(f, as) == [op |-> "Call", id |-> f, args |-> as]

Assign(target, e) ==
    [node |-> "Assign", targets |-> <<Name(target)>>, value |-> e,
     name |-> "", params |-> <<>>]
ExprStmt(e) ==
    [node |-> "Expr", targets |-> <<>>, value |-> e,
     name |-> "", params |-> <<>>]

NoError == [kind |-> "none", msg |-> "", names |-> {}]
ValueError(m) == [kind |-> "ValueError", msg |-> m, names |-> {}]
TypeError(m) == [kind |-> "TypeError", msg |-> m, names |-> {}]

Range(s) == {s[i] : i \in 1..Len(s)}

RECURSIVE Concat(_)
Concat(ss) == IF ss = <<>> THEN <<>> ELSE Head(ss) \o Concat(Tail(ss))

SelectNames(s, keep) == SelectSeq(s, LAMBDA n : n \in keep)
DropNames(s, drop) == SelectSeq(s, LAMBDA n : n \notin drop)


(***************************************************************************)
(* FunctionParser: dependency collection from a right-hand side.           *)
(***************************************************************************)
RECURSIVE _collect_binop(_), _collect_subscript(_), _collect_unaryop(_)
RECURSIVE BinopRaises(_), SubscriptRaises(_), UnaryopRaises(_)

\* one operand of a BinOp: only Name, BinOp and Subscript operands are
\* looked into; any other operand (UnaryOp, Call, Constant) adds nothing
BinopOperand(e) ==
    IF e.op = "Name" THEN <<e.id>>
    ELSE IF e.op = "BinOp" THEN _collect_binop(e)
    ELSE IF e.op = "Subscript" THEN _collect_subscript(e)
    ELSE <<>>

_collect_binop(binop) ==
    BinopOperand(binop.args[1]) \o BinopOperand(binop.args[2])

SubscriptPart(e) ==
    IF e.op = "Name" THEN <<e.id>>
    ELSE IF e.op = "BinOp" THEN _collect_binop(e)
    ELSE IF e.op = "Subscript" THEN _collect_subscript(e)
    ELSE <<>>

_collect_subscript(node) ==
    SubscriptPart(node.args[1]) \o SubscriptPart(node.args[2])

_collect_unaryop(node) ==
    LET operand == node.args[1] IN
    IF operand.op = "Name" THEN <<operand.id>>
    ELSE IF operand.op = "BinOp" THEN _collect_binop(operand)
    ELSE IF operand.op = "UnaryOp" THEN _collect_unaryop(operand)
    ELSE <<>>

\* the TypeError paths of the three collectors
BinopRaises(binop) ==
    \E i \in 1..2 :
        \/ binop.args[i].op = "BinOp" /\ BinopRaises(binop.args[i])
        \/ binop.args[i].op = "Subscript" /\ SubscriptRaises(binop.args[i])

SubscriptRaises(node) ==
    \E i \in 1..2 :
        \/ node.args[i].op \notin {"Name", "BinOp", "Subscript"}
        \/ node.args[i].op = "BinOp" /\ BinopRaises(node.args[i])
        \/ node.args[i].op = "Subscript" /\ SubscriptRaises(node.args[i])

UnaryopRaises(node) ==
    LET operand == node.args[1] IN
    \/ operand.op \notin {"Name", "BinOp", "UnaryOp"}
    \/ operand.op = "BinOp" /\ BinopRaises(operand)
    \/ operand.op = "UnaryOp" /\ UnaryopRaises(operand)

\* _collect_call: the positional arguments that are bare names, and whether
\* the callee is integ
_collect_call(node) ==
    [variables |-> Concat([i \in 1..Len(node.args) |->
                        IF node.args[i].op = "Name"
                        THEN <<node.args[i].id>> ELSE <<>>]),
     is_state_var |-> node.id = "integ"]

\* the value dispatch shared by _collect_assign and _collect_annassign:
\* [err, parameters, is_state_var]
CollectValue(value, accepted) ==
    IF value.op \notin accepted
    THEN [err |-> TypeError("No method for handling value"),
          parameters |-> <<>>, is_state_var |-> FALSE]
    ELSE IF value.op = "BinOp"
    THEN [err |-> IF BinopRaises(value)
                  THEN TypeError("No method for handling subscript part")
                  ELSE NoError,
          parameters |-> _collect_binop(value), is_state_var |-> FALSE]
    ELSE IF value.op = "Call"
    THEN [err |-> NoError,
          parameters |-> _collect_call(value).variables,
          is_state_var |-> _collect_call(value).is_state_var]
    ELSE IF value.op = "UnaryOp"
    THEN [err |-> IF UnaryopRaises(value)
                  THEN TypeError("No method for handling operand in a unaryop")
                  ELSE NoError,
          parameters |-> _collect_unaryop(value), is_state_var |-> FALSE]
    ELSE IF value.op = "Name"
    THEN [err |-> NoError, parameters |-> <<value.id>>,
          is_state_var |-> FALSE]
    ELSE [err |-> IF SubscriptRaises(value)
                  THEN TypeError("No method for handling subscript part")
                  ELSE NoError,
          parameters |-> _collect_subscript(value), is_state_var |-> FALSE]

(***************************************************************************)
(* The parser state threaded through collect_variables:                    *)
(*   [map, exprs, svars, err]                                              *)
(* map is the insertion-ordered dict variable_map, a sequence of entries   *)
(* [key, stmt, dependencies, type].                                        *)
(***************************************************************************)
MapKeys(map) == {map[i].key : i \in 1..Len(map)}
MapGet(map, k) == map[CHOOSE i \in 1..Len(map) : map[i].key = k]
\* dict assignment: an existing key keeps its position
MapPut(map, e) ==
    IF e.key \in MapKeys(map)
    THEN [i \in 1..Len(map) |-> IF map[i].key = e.key THEN e ELSE map[i]]
    ELSE Append(map, e)

RECURSIVE PutTargets(_, _, _, _, _)
\* the loop over node.targets of _collect_assign: only bare names are bound
PutTargets(st, node, targets, parameters, is_state_var) ==
    IF targets = <<>> THEN st
    ELSE LET tg == Head(targets)
             st1 == IF tg.op = "Name"
                    THEN [st EXCEPT
                            !.map = MapPut(@, [key |-> tg.id, stmt |-> node,
                                               dependencies |-> parameters,
                                               type |-> "assign"]),
                            !.svars = IF is_state_var
                                      THEN Append(@, tg.id) ELSE @]
                    ELSE st
         IN PutTargets(st1, node, Tail(targets), parameters, is_state_var)

_collect_assign(st, node) ==
    IF node.targets[1].op \in {"Tuple", "List"}
    THEN [st EXCEPT !.err =
            ValueError("Multiple targets in assignment is not allowed")]
    ELSE LET r == CollectValue(node.value,
                     {"BinOp", "Call", "UnaryOp", "Name", "Subscript"}) IN
         IF r.err # NoError THEN [st EXCEPT !.err = r.err]
         ELSE PutTargets(st, node, node.targets, r.parameters, r.is_state_var)

_collect_annassign(st, node) ==
    LET r == CollectValue(node.value, {"BinOp", "Call"})
        tg == node.targets[1] IN
    IF r.err # NoError THEN [st EXCEPT !.err = r.err]
    ELSE IF tg.op = "Name"
    THEN [st EXCEPT
            !.map = MapPut(@, [key |-> tg.id, stmt |-> node,
                               dependencies |-> r.parameters,
                               type |-> "annassign"]),
            !.svars = IF r.is_state_var THEN Append(@, tg.id) ELSE @]
    ELSE st

\* node.value of a FunctionDef node holds the values of its return
\* statements (a Tuple node); node.params its parameter names
_collect_procedural(st, node) ==
    LET rets == SelectSeq(node.value.args,
                          LAMBDA e : e.op \in {"Name", "Constant"}) IN
    IF Len(rets) > 1
    THEN [st EXCEPT !.err =
            ValueError("Procedural function returns multiple values")]
    ELSE IF Len(rets) = 0
    THEN [st EXCEPT !.err =
            [kind |-> "IndexError", msg |-> "list index out of range",
             names |-> {}]]
    ELSE [st EXCEPT
            !.map = MapPut(@, [key |-> rets[1].id, stmt |-> node,
                               dependencies |-> node.params,
                               type |-> "procedural"])]

_collect_expr(st, node) ==
    IF node.value.id = "constant" THEN st
    ELSE IF node.value.id = "end"
    THEN [st EXCEPT !.exprs = MapPut(@, [key |-> "end", stmt |-> node,
                                         dependencies |-> <<>>,
                                         type |-> "ACSL.end"])]
    ELSE [st EXCEPT !.err = ValueError("Unknown function")]

RECURSIVE CollectBody(_, _)
CollectBody(st, body) ==
    IF body = <<>> \/ st.err # NoError THEN st
    ELSE LET node == Head(body)
             st1 == IF node.node = "FunctionDef" THEN _collect_procedural(st, node)
                    ELSE IF node.node = "Assign" THEN _collect_assign(st, node)
                    ELSE IF node.node = "AnnAssign" THEN _collect_annassign(st, node)
                    ELSE IF node.node = "Expr" THEN _collect_expr(st, node)
                    ELSE st
         IN CollectBody(st1, Tail(body))

\* filter_variable_map: constants, state variables and t are dropped from
\* every dependency list
filter_variable_map(st, constant_names) ==
    LET initial_values == Range(st.svars) \cup constant_names \cup {"t"} IN
    [st EXCEPT !.map = [i \in 1..Len(st.map) |->
        [st.map[i] EXCEPT !.dependencies = DropNames(@, initial_values)]]]

collect_variables(body, constant_names, include_constants) ==
    LET st == CollectBody([map |-> <<>>, exprs |-> <<>>, svars |-> <<>>,
                           err |-> NoError], body) IN
    IF st.err # NoError \/ include_constants THEN st
    ELSE filter_variable_map(st, constant_names)


(***************************************************************************)
(* AcslSort                                                                *)
(***************************************************************************)
MaxStmts == 4          \* longest authored section body
MaxShuffleStmts == 3   \* longest body that is re-submitted in another order

\* the constant table handed to the sorter (ConstantManager.constants.keys())
constant_names == {"k", "y0", "t"}

\* the statements sections are authored from
Pool ==
    { Assign("a", Name("k")),
      Assign("b", BinOp(Name("a"), Name("k"))),
      Assign("b", BinOp(Name("k"), UnaryOp(Name("a")))),
      Assign("dy", BinOp(Name("a"), Name("b"))),
      Assign("a", BinOp(Name("b"), Name("k"))),
      Assign("dy", UnaryOp(Name("y"))),
      Assign("y", Call("integ", <<Name("dy"), Name("y0")>>)),
      ExprStmt(Call("end", <<>>)) }

Injective(f) == \A i, j \in DOMAIN f : f[i] = f[j] => i = j
Bodies(n) == {f \in UNION {[1..m -> Pool] : m \in 1..n} : Injective(f)}

NoTree == [helpers |-> <<>>, body |-> <<>>]
NoPass == [phase |-> "none", tree |-> NoTree, err |-> NoError]

NotPossible == "Not possible to calculate any of the remaining variables"

\* the variables _pick_next_variable may return: no dependency, or every
\* dependency already calculated
ReadyVariables(pending, calculated, map) ==
    {var \in pending :
        \/ MapGet(map, var).dependencies = <<>>
        \/ \A dep \in Range(MapGet(map, var).dependencies) : dep \in calculated}

\* the exception of _pick_next_variable when its loop returns nothing
PickError == ValueError(NotPossible)

\* a call site that passes nothing to the helper
_create_procedural_call_no_arguments(var_name, stmt) ==
    Assign(var_name, Call(stmt.name, <<>>))

_create_procedural_call(var_name, stmt) ==
    Assign(var_name, Call(stmt.name,
        [i \in 1..Len(stmt.params) |-> Name(stmt.params[i])]))

\* delay_id stands for the md5 digest of the arguments and the target
_create_delay_call(var_name, stmt) ==
    Assign(var_name, Call(stmt.value.id,
        Append(stmt.value.args, Num("delay_id"))))

BuildTypes == {"assign", "procedural", "delay"}

\* one element of the emitted body for an entry of calculation_order
EmitEntry(info) ==
    IF info.type = "assign" THEN info.stmt
    ELSE IF info.type = "procedural"
    THEN _create_procedural_call(info.key, info.stmt)
    ELSE _create_delay_call(info.key, info.stmt)

_build_sorted_ast(order, map, exprs) ==
    LET infos == [i \in 1..Len(order) |-> MapGet(map, order[i])]
        procs == SelectSeq(infos, LAMBDA e : e.type = "procedural") IN
    [helpers |-> [i \in 1..Len(procs) |-> procs[i].stmt],
     body |-> [i \in 1..Len(infos) |-> EmitEntry(infos[i])]
              \o [i \in 1..Len(exprs) |-> exprs[i].stmt]]

\* AcslSort.sort, lines 49-53: parse, then set up the loop
CollectVariables ==
    /\ sortPhase = "submitted"
    /\ LET st == collect_variables(section, constant_names, FALSE) IN
       /\ variable_map' = st.map
       /\ expr_map' = st.exprs
       /\ state_variables' = st.svars
       /\ sortError' = st.err
       /\ sortPhase' = IF st.err = NoError THEN "sorting" ELSE "error"
       /\ variables_to_sort' = IF st.err = NoError THEN MapKeys(st.map) ELSE {}
       /\ calculation_order' = <<>>
    /\ UNCHANGED <<section, sorted_tree, firstPass>>
    /\ UNCHANGED notSort

\* one iteration of the while loop of AcslSort.sort; the set is iterated in
\* an unspecified order, so any ready variable may be the one returned
PickNextVariable ==
    /\ sortPhase = "sorting"
    /\ variables_to_sort # {}
    /\ \E next_var \in ReadyVariables(variables_to_sort,
                            Range(calculation_order), variable_map) :
         /\ variables_to_sort' = variables_to_sort \ {next_var}
         /\ calculation_order' = Append(calculation_order, next_var)
    /\ UNCHANGED <<section, variable_map, expr_map, state_variables,
                   sorted_tree, sortPhase, sortError, firstPass>>
    /\ UNCHANGED notSort

\* the iteration in which _pick_next_variable finds nothing and raises
PickRaises ==
    /\ sortPhase = "sorting"
    /\ variables_to_sort # {}
    /\ ReadyVariables(variables_to_sort, Range(calculation_order),
                      variable_map) = {}
    /\ sortError' = PickError
    /\ sortPhase' = "error"
    /\ UNCHANGED <<section, variable_map, expr_map, state_variables,
                   variables_to_sort, calculation_order, sorted_tree,
                   firstPass>>
    /\ UNCHANGED notSort

\* AcslSort.sort, lines 63-66
BuildSortedAst ==
    /\ sortPhase = "sorting"
    /\ variables_to_sort = {}
    /\ IF \A i \in 1..Len(variable_map) : variable_map[i].type \in BuildTypes
       THEN /\ sorted_tree' = _build_sorted_ast(calculation_order,
                                                variable_map, expr_map)
            /\ sortPhase' = "sorted"
            /\ sortError' = NoError
       ELSE /\ sortError' = ValueError("Unknown type")
            /\ sortPhase' = "error"
            /\ UNCHANGED sorted_tree
    /\ UNCHANGED <<section, variable_map, expr_map, state_variables,
                   variables_to_sort, calculation_order, firstPass>>
    /\ UNCHANGED notSort

\* the same statements are submitted again in another authored order
Permuted(body, p) == [i \in 1..Len(body) |-> body[p[i]]]
Resubmit ==
    /\ sortPhase \in {"sorted", "error"}
    /\ firstPass.phase = "none"
    /\ \E p \in [1..Len(section) -> 1..Len(section)] :
         /\ Injective(p)
         /\ Permuted(section, p) # section
         /\ section' = Permuted(section, p)
    /\ firstPass' = [phase |-> sortPhase, tree |-> sorted_tree, err |-> sortError]
    /\ variable_map' = <<>>
    /\ expr_map' = <<>>
    /\ state_variables' = <<>>
    /\ variables_to_sort' = {}
    /\ calculation_order' = <<>>
    /\ sorted_tree' = NoTree
    /\ sortPhase' = "submitted"
    /\ sortError' = NoError
    /\ UNCHANGED notSort

SortInit(bodies) ==
    /\ section \in bodies
    /\ variable_map = <<>>
    /\ expr_map = <<>>
    /\ state_variables = <<>>
    /\ variables_to_sort = {}
    /\ calculation_order = <<>>
    /\ sorted_tree = NoTree
    /\ sortPhase = "submitted"
    /\ sortError = NoError
    /\ firstPass = NoPass

SortNext ==
    \/ CollectVariables
    \/ PickNextVariable
    \/ PickRaises
    \/ BuildSortedAst

(***************************************************************************)
(* Reading the emitted body.                                               *)
(***************************************************************************)
RECURSIVE NamesRead(_)
\* every variable name an expression reads, at any depth
NamesRead(e) ==
    IF e.op = "Name" THEN {e.id}
    ELSE UNION {NamesRead(e.args[i]) : i \in 1..Len(e.args)}

IsAssignment(stmt) == stmt.node \in {"Assign", "AnnAssign"}

AssignedBefore(body, i) ==
    {body[j].targets[1].id : j \in {m \in 1..(i - 1) : IsAssignment(body[m])}}

\* the names available to a section without being assigned in it
SectionInputs == constant_names \cup {"t"} \cup Range(state_variables)

AllNames == {"a", "b", "dy", "y", "k", "y0", "t"}

Unbound == [op |-> "NameError", id |-> "", args |-> <<>>]

RECURSIVE Sym(_, _), HasUnbound(_), RunBody(_, _)
\* the value of an expression as a term over the section's inputs
Sym(e, env) ==
    IF e.op = "Name" THEN env[e.id]
    ELSE [e EXCEPT !.args = [i \in 1..Len(e.args) |-> Sym(e.args[i], env)]]

HasUnbound(e) ==
    \/ e.op = "NameError"
    \/ \E i \in 1..Len(e.args) : HasUnbound(e.args[i])

\* executes a body top to bottom; a read of an unassigned local raises
RunBody(body, st) ==
    IF body = <<>> \/ st.raised THEN st
    ELSE LET stmt == Head(body) IN
         IF ~IsAssignment(stmt) THEN RunBody(Tail(body), st)
         ELSE LET v == Sym(stmt.value, st.env) IN
              IF HasUnbound(v) THEN [st EXCEPT !.raised = TRUE]
              ELSE RunBody(Tail(body),
                     [st EXCEPT !.env[stmt.targets[1].id] = v])

Outcome(body, inputs) ==
    LET st == RunBody(body,
                [env |-> [n \in AllNames |->
                            IF n \in inputs THEN Name(n) ELSE Unbound],
                 raised |-> FALSE]) IN
    IF st.raised THEN [raised |-> TRUE, env |-> [n \in AllNames |-> Unbound]]
    ELSE st

(***************************************************************************)
(* C1: sort soundness.  In the body the sorter emits, every assignment is  *)
(* preceded by the assignment of each name it reads that is not a          *)
(* constant, not t and not a state variable.                               *)
(***************************************************************************)
C1_SortSoundness ==
    sortPhase = "sorted" =>
        \A i \in 1..Len(sorted_tree.body) :
            IsAssignment(sorted_tree.body[i]) =>
                (NamesRead(sorted_tree.body[i].value) \ SectionInputs)
                    \subseteq AssignedBefore(sorted_tree.body, i)

(***************************************************************************)
(* C2: when variables remain and none is ready, sorting fails with an      *)
(* error that names the remaining variables.                               *)
(***************************************************************************)
C2_CyclicErrorNamesVariables ==
    /\ (sortPhase = "sorting" /\ variables_to_sort # {}
        /\ ReadyVariables(variables_to_sort, Range(calculation_order),
                          variable_map) = {})
          => ENABLED PickRaises
    /\ (sortPhase = "error" /\ sortError.msg = NotPossible)
          => /\ variables_to_sort # {}
             /\ variables_to_sort \subseteq sortError.names

(***************************************************************************)
(* C6: sort stability under shuffling.  Two sections made of the same      *)
(* statements in a different authored order are either both rejected, or   *)
(* both emitted with the same assignment statements and the same value of  *)
(* every variable for every input.                                         *)
(***************************************************************************)
C6_ShuffleStable ==
    (firstPass.phase # "none" /\ sortPhase \in {"sorted", "error"}) =>
        \/ firstPass.phase = "error" /\ sortPhase = "error"
        \/ /\ firstPass.phase = "sorted" /\ sortPhase = "sorted"
           /\ Range(firstPass.tree.body) = Range(sorted_tree.body)
           /\ Outcome(firstPass.tree.body, SectionInputs)
                = Outcome(sorted_tree.body, SectionInputs)


(***************************************************************************)
(* IntegFunctionCreator                                                    *)
(***************************************************************************)
\* the statements the sections handed to the synthesizer are authored from
SynthPool ==
    { Assign("a", Name("k")),
      Assign("b", BinOp(Name("a"), Name("k"))),
      Assign("dy", BinOp(Name("a"), Name("b"))),
      Assign("dy", UnaryOp(Name("y"))),
      Assign("y", Call("integ", <<Name("dy"), Name("y0")>>)),
      Assign("dz", BinOp(Name("b"), Name("y"))),
      Assign("z", Call("integ", <<Name("dz"), Name("y0")>>)),
      ExprStmt(Call("end", <<>>)) }

SynthBodies(n) ==
    {f \in UNION {[1..m -> SynthPool] : m \in 1..n} : Injective(f)}

\* _detect_integ_calls: x = self.integ(<name>, ...) with a single bare target
_detect_integ_calls(body) ==
    LET hits == SelectSeq(body, LAMBDA stmt :
                    /\ stmt.node = "Assign"
                    /\ Len(stmt.targets) = 1
                    /\ stmt.targets[1].op = "Name"
                    /\ stmt.value.op = "Call"
                    /\ stmt.value.id = "integ"
                    /\ Len(stmt.value.args) >= 1
                    /\ stmt.value.args[1].op = "Name") IN
    [i \in 1..Len(hits) |->
        [diff_var |-> hits[i].value.args[1].id,
         state_var |-> hits[i].targets[1].id]]

\* dict helpers for the walk's dependencies: entries [key, type, order]
DepKeys(deps) == {deps[i].key : i \in 1..Len(deps)}
DepPut(deps, k, ty, n) ==
    IF k \in DepKeys(deps)
    THEN [i \in 1..Len(deps) |->
            IF deps[i].key = k THEN [key |-> k, type |-> ty, order |-> n]
            ELSE deps[i]]
    ELSE Append(deps, [key |-> k, type |-> ty, order |-> n])

RECURSIVE AddDependencies(_, _, _)
\* the for loop of _create_dependency_map, lines 223-228: [deps, calc_order]
AddDependencies(w, var_dependencies, self_constants) ==
    IF var_dependencies = <<>> THEN w
    ELSE LET var == Head(var_dependencies)
             w1 == IF var \notin self_constants /\ var \notin DepKeys(w.deps)
                   THEN [deps |-> DepPut(w.deps, var, "calc", w.calc_order),
                         calc_order |-> w.calc_order + 1]
                   ELSE IF var \in self_constants /\ var \notin DepKeys(w.deps)
                   THEN [w EXCEPT !.deps = DepPut(@, var, "constant", 0)]
                   ELSE w
         IN AddDependencies(w1, Tail(var_dependencies), self_constants)

\* candidates that leave the calculated names in
RemainingDependenciesWithCalculated(deps, calculated) == DepKeys(deps)

\* _get_next_var_to_calc: the candidates of remaining_dependencies.pop()
RemainingDependencies(deps, calculated) == DepKeys(deps) \ calculated

\* the slice of _create_derivative_function: constants in dict order, t
\* appended when absent
KernelConstants(deps) ==
    LET cs == SelectSeq(deps, LAMBDA d : d.type = "constant")
        names == [i \in 1..Len(cs) |-> cs[i].key] IN
    IF "t" \in Range(names) THEN names ELSE Append(names, "t")

RECURSIVE SortByOrderDesc(_)
\* calc_vars_with_order.sort(key=order, reverse=True)
SortByOrderDesc(cs) ==
    IF cs = {} THEN <<>>
    ELSE LET top == CHOOSE c \in cs : \A d \in cs : d.order <= c.order IN
         <<top.key>> \o SortByOrderDesc(cs \ {top})

KernelCalcVars(deps) ==
    SortByOrderDesc({deps[i] : i \in {j \in 1..Len(deps) : deps[j].type = "calc"}})

\* a kernel body that is the whole section instead of the slice
KernelBodyWholeSection(deriv_var, calc_vars, assigned) ==
    [i \in 1..Len(assigned) |-> assigned[i].stmt]

\* _create_function_ast: the statements of the kernel body before the return
KernelBody(deriv_var, calc_vars, assigned) ==
    LET present == SelectSeq(calc_vars, LAMBDA v : v \in MapKeys(assigned)) IN
    [i \in 1..Len(present) |-> MapGet(assigned, present[i]).stmt]
    \o (IF deriv_var \in MapKeys(assigned)
        THEN <<MapGet(assigned, deriv_var).stmt>> ELSE <<>>)

\* _create_derivative_function and _create_function_ast for one entry of
\* self.dependencies
_create_derivative_function(deriv_var, deps, assigned) ==
    LET svs == SelectSeq(deps, LAMBDA d : d.type = "state_var")
        state_var == svs[Len(svs)].key
        constant_args == KernelConstants(deps) IN
    [name |-> deriv_var,
     state_var |-> state_var,
     body |-> KernelBody(deriv_var, KernelCalcVars(deps), assigned),
     returns |-> deriv_var,
     kwonlyargs |-> <<state_var>> \o constant_args,
     arg_names |-> constant_args \o <<state_var>>]

CreateKernels(alldeps, assigned) ==
    [i \in 1..Len(alldeps) |->
        _create_derivative_function(alldeps[i].key, alldeps[i].deps, assigned)]

\* self.dependencies[diff_var] = dependencies
AllDepsPut(alldeps, k, deps) ==
    IF k \in {alldeps[i].key : i \in 1..Len(alldeps)}
    THEN [i \in 1..Len(alldeps) |->
            IF alldeps[i].key = k THEN [key |-> k, deps |-> deps]
            ELSE alldeps[i]]
    ELSE Append(alldeps, [key |-> k, deps |-> deps])

\* visit, lines 82-121 up to the first walk: the sorted tree's last function
\* is parsed with the state variables added to the constants
SynthStart ==
    /\ sortPhase = "sorted"
    /\ synthPhase = "idle"
    /\ LET found == _detect_integ_calls(sorted_tree.body)
           consts == synth_constants
                        \cup {found[i].state_var : i \in 1..Len(found)} IN
       IF found = <<>>
       THEN /\ synthPhase' = "done"
            /\ UNCHANGED <<synth_constants, assignments, integ_vars,
                           call_index, dependencies, calc_order,
                           calculated_vars, var_to_calc>>
       ELSE /\ synthPhase' = "walking"
            /\ integ_vars' = found
            /\ synth_constants' = consts
            /\ assignments' =
                  collect_variables(sorted_tree.body, consts, TRUE).map
            /\ call_index' = 1
            /\ dependencies' = <<>>
            /\ calc_order' = 1
            /\ calculated_vars' = {found[1].state_var} \cup consts
            /\ var_to_calc' = found[1].diff_var
    /\ UNCHANGED <<all_dependencies, deriv_functions>>
    /\ UNCHANGED notSynth

\* what follows the while loop of one walk: the state variable is entered,
\* the dict is stored, and the next pair's walk (or step 4 of visit) begins
EndWalk(deps) ==
    LET pair == integ_vars[call_index]
        closed == DepPut(deps, pair.state_var, "state_var", 0) IN
    /\ all_dependencies' = AllDepsPut(all_dependencies, pair.diff_var, closed)
    /\ IF call_index < Len(integ_vars)
       THEN /\ call_index' = call_index + 1
            /\ dependencies' = <<>>
            /\ calc_order' = 1
            /\ calculated_vars' =
                  {integ_vars[call_index + 1].state_var} \cup synth_constants
            /\ var_to_calc' = integ_vars[call_index + 1].diff_var
            /\ synthPhase' = "walking"
       ELSE /\ call_index' = call_index
            /\ dependencies' = closed
            /\ calc_order' = calc_order
            /\ calculated_vars' = calculated_vars
            /\ var_to_calc' = "None"
            /\ synthPhase' = "walked"

\* one iteration of the while loop of _create_dependency_map; set.pop()
\* returns an arbitrary remaining name
WalkStep ==
    /\ synthPhase = "walking"
    /\ LET isConst == var_to_calc \in synth_constants
           isAssigned == var_to_calc \in MapKeys(assignments)
           w == IF isConst
                THEN [deps |-> DepPut(dependencies, var_to_calc, "constant", 0),
                      calc_order |-> calc_order]
                ELSE AddDependencies(
                        [deps |-> dependencies, calc_order |-> calc_order],
                        MapGet(assignments, var_to_calc).dependencies,
                        synth_constants)
           done == calculated_vars \cup {var_to_calc} IN
       IF ~isConst /\ ~isAssigned
       THEN \* neither branch is taken: the loop repeats in the same state
            UNCHANGED <<dependencies, calc_order, calculated_vars,
                        var_to_calc, call_index, all_dependencies, synthPhase>>
       ELSE IF RemainingDependencies(w.deps, done) = {}
       THEN EndWalk(w.deps)
       ELSE /\ \E nxt \in RemainingDependencies(w.deps, done) :
                  var_to_calc' = nxt
            /\ dependencies' = w.deps
            /\ calc_order' = w.calc_order
            /\ calculated_vars' = done
            /\ UNCHANGED <<call_index, all_dependencies, synthPhase>>
    /\ UNCHANGED <<synth_constants, assignments, integ_vars, deriv_functions>>
    /\ UNCHANGED notSynth

\* visit, lines 123-142
CreateDerivativeFunctions ==
    /\ synthPhase = "walked"
    /\ deriv_functions' = CreateKernels(all_dependencies, assignments)
    /\ synthPhase' = "done"
    /\ UNCHANGED <<synth_constants, assignments, integ_vars, call_index,
                   dependencies, calc_order, calculated_vars, var_to_calc,
                   all_dependencies>>
    /\ UNCHANGED notSynth

SynthIdle ==
    /\ synthPhase = "idle"
    /\ synth_constants = constant_names
    /\ assignments = <<>>
    /\ integ_vars = <<>>
    /\ call_index = 0
    /\ dependencies = <<>>
    /\ calc_order = 1
    /\ calculated_vars = {}
    /\ var_to_calc = "None"
    /\ all_dependencies = <<>>
    /\ deriv_functions = <<>>


(***************************************************************************)
(* C4: in every synthesized kernel the intermediate assignments come in    *)
(* reverse order of first visit, and in that order every assignment of the *)
(* body reads only kernel parameters or names assigned earlier in the body.*)
(***************************************************************************)
KernelReadsReady(kf) ==
    \A i \in 1..Len(kf.body) :
        NamesRead(kf.body[i].value)
            \subseteq (Range(kf.kwonlyargs) \cup AssignedBefore(kf.body, i))

C4_KernelInputsReady ==
    synthPhase = "done" =>
        \A n \in 1..Len(deriv_functions) : KernelReadsReady(deriv_functions[n])

(***************************************************************************)
(* C5: derivative slicing minimality.  The kernel of a state variable y    *)
(* (its body statements, and its parameters other than y and t) holds no   *)
(* name that is not reachable from y's derivative expression through the   *)
(* dependency graph of the section; state variables and constants are      *)
(* inputs and are not expanded.                                            *)
(***************************************************************************)
RECURSIVE ReachFrom(_, _, _)
ReachFrom(S, body, inputs) ==
    LET next == S \cup UNION {NamesRead(body[i].value) :
                    i \in {j \in 1..Len(body) :
                            /\ IsAssignment(body[j])
                            /\ body[j].targets[1].id \in (S \ inputs)}} IN
    IF next = S THEN S ELSE ReachFrom(next, body, inputs)

KernelNames(kf) ==
    {kf.body[i].targets[1].id : i \in 1..Len(kf.body)}
    \cup UNION {NamesRead(kf.body[i].value) : i \in 1..Len(kf.body)}
    \cup (Range(kf.kwonlyargs) \ {kf.state_var, "t"})

C5_SlicingMinimal ==
    synthPhase = "done" =>
        \A n \in 1..Len(deriv_functions) :
            KernelNames(deriv_functions[n])
                \subseteq ReachFrom({deriv_functions[n].name},
                                    sorted_tree.body, SectionInputs)

\* a kernel was cut out of a section that also assigns a name, and knows a
\* constant, the kernel has no use for
C5_Witness ==
    /\ synthPhase = "done"
    /\ \E n \in 1..Len(deriv_functions) :
         LET kf == deriv_functions[n] IN
         /\ Len(kf.body) >= 1
         /\ "k" \notin Range(kf.kwonlyargs)
         /\ \E i \in 1..Len(sorted_tree.body) :
              /\ IsAssignment(sorted_tree.body[i])
              /\ sorted_tree.body[i].targets[1].id
                    \notin (KernelNames(kf) \cup Range(state_variables))

(***************************************************************************)
(* ConstantManager and the CINT resolution of AcslBuild.build.  A Python   *)
(* value is a record [ty, v]: its type and a number standing for it.       *)
(***************************************************************************)
Val(ty, v) == [ty |-> ty, v |-> v]
None == Val("NoneType", 0)

\* ConstantManager.valid_types; bool is a subclass of int
valid_types == {"int", "float", "bool", "list"}
IsInstanceInt(value) == value.ty \in {"int", "bool"}

\* the names and values a registration is tried with
StrName(n) == [ty |-> "str", s |-> n]
ConstantNames == {StrName("t"), StrName("k"), StrName("CINT"),
                  [ty |-> "int", s |-> "5"]}
ConstantValues == {Val("int", 2), Val("int", 5), Val("float", 2), Val("bool", 1),
                   Val("list", 0), Val("str", 0), None}

\* ConstantManager.__init__ before it reads the INITIAL scope
InitialConstants == [n \in {"t"} |-> Val("int", 0)]

\* a registration that replaces the value of a name already in the table
set_constant_overwrite(table, name, value) ==
    IF name.ty # "str"
    THEN [constants |-> table,
          err |-> TypeError("Constant name must be a string")]
    ELSE IF value.ty \notin valid_types
    THEN [constants |-> table, err |-> TypeError("invalid type")]
    ELSE [constants |-> [n \in DOMAIN table \cup {name.s} |->
                            IF n = name.s THEN value ELSE table[n]],
          err |-> NoError]

\* ConstantManager.set_constant: the table after the call and what it raised
set_constant(table, name, value) ==
    IF name.ty # "str"
    THEN [constants |-> table,
          err |-> TypeError("Constant name must be a string")]
    ELSE IF value.ty \notin valid_types
    THEN [constants |-> table, err |-> TypeError("invalid type")]
    ELSE IF name.s \in DOMAIN table
    THEN [constants |-> table, err |-> ValueError("already defined")]
    ELSE [constants |-> [n \in DOMAIN table \cup {name.s} |->
                            IF n = name.s THEN value ELSE table[n]],
          err |-> NoError]

\* collect_initial_constants / collect: one registration; a raise ends build
SetConstant ==
    /\ buildPhase = "collect_constants"
    /\ \E name \in ConstantNames, value \in ConstantValues :
         LET r == set_constant(constants, name, value) IN
         /\ constants' = r.constants
         /\ coordError' = r.err
         /\ set_call' = [name |-> name, value |-> value]
         /\ buildPhase' = IF r.err = NoError THEN "collect_constants"
                                            ELSE "failed"
    /\ UNCHANGED <<callerCINT, integration_settings, CINT>>
    /\ UNCHANGED notCoord

\* integration_settings.get("CINT", None)
SettingsGetCINT(settings) ==
    IF settings.has_CINT THEN settings.CINT ELSE None

\* AcslBuild.build, "Set CINT from constants"
ResolvedCINT(table, caller, settings) ==
    LET c1 == IF "CINT" \in DOMAIN table THEN table["CINT"] ELSE caller
        c2 == IF c1 = None THEN SettingsGetCINT(settings) ELSE c1
    IN  IF c2 = None \/ ~IsInstanceInt(c2) THEN Val("int", 1) ELSE c2

ResolveCINT ==
    /\ buildPhase = "collect_constants"
    /\ CINT' = ResolvedCINT(constants, callerCINT, integration_settings)
    /\ buildPhase' = "resolved"
    /\ UNCHANGED <<constants, set_call, coordError, callerCINT,
                   integration_settings>>
    /\ UNCHANGED notCoord

CallerCINTs == {None, Val("int", 2), Val("int", 3), Val("float", 2)}
DynamicSettings ==
    {[has_CINT |-> FALSE, CINT |-> None]}
    \cup {[has_CINT |-> TRUE, CINT |-> c] :
            c \in {Val("int", 5), Val("int", 4), Val("float", 5)}}

CoordInit(callers, settings) ==
    /\ constants = InitialConstants
    /\ set_call = [name |-> StrName(""), value |-> None]
    /\ coordError = NoError
    /\ callerCINT \in callers
    /\ integration_settings \in settings
    /\ CINT = callerCINT
    /\ buildPhase = "collect_constants"

\* the coordinator is not under study
CoordIdle ==
    /\ CoordInit({None}, {[has_CINT |-> FALSE, CINT |-> None]})

(***************************************************************************)
(* C7: the final CINT is the caller's explicit value if given; otherwise   *)
(* the value of a constant named CINT if one exists; otherwise the CINT    *)
(* assigned in DYNAMIC; otherwise 1.  Stated for integer values, the only  *)
(* ones build keeps.                                                       *)
(***************************************************************************)
PrecedenceCINT ==
    IF callerCINT # None THEN callerCINT
    ELSE IF "CINT" \in DOMAIN constants THEN constants["CINT"]
    ELSE IF integration_settings.has_CINT THEN integration_settings.CINT
    ELSE Val("int", 1)

C7_CINTPrecedence ==
    (/\ buildPhase = "resolved"
     /\ callerCINT.ty \in {"int", "NoneType"}
     /\ "CINT" \in DOMAIN constants => constants["CINT"].ty = "int"
     /\ integration_settings.CINT.ty \in {"int", "NoneType"})
        => CINT = PrecedenceCINT

(***************************************************************************)
(* C8: constant immutability.  A registration of a name that is already in *)
(* the table, the pre-registered t included, raises whatever the value is, *)
(* and leaves the table as it was.                                         *)
(***************************************************************************)
C8_ConstantImmutability ==
    [][(/\ buildPhase = "collect_constants"
        /\ buildPhase' # "resolved"
        /\ set_call'.name.ty = "str"
        /\ set_call'.name.s \in DOMAIN constants)
            => (coordError' # NoError /\ constants' = constants)]_coordVars

\* a name of the table was registered again with another value, and bounced
C8_Witness ==
    /\ buildPhase = "failed"
    /\ set_call.name.ty = "str"
    /\ set_call.name.s \in DOMAIN constants
    /\ set_call.value.ty \in valid_types
    /\ constants[set_call.name.s] # set_call.value
    /\ Cardinality(DOMAIN constants) > 1

(***************************************************************************)
(* AcslRun.run on a model with one state variable A:                       *)
(*     DERIVATIVE:  dAdt = -k;  A = self.integ(dAdt, <ic>);  self.end()    *)
(* where <ic> is the constant name A0 or a literal number.  Time is        *)
(* counted in whole units, so CINT / NSTP is taken where NSTP divides CINT;*)
(* with the constant-rate kernel every RK4 division is exact.              *)
(***************************************************************************)
MaxStop == 24      \* largest stop time
MaxCINT == 6       \* largest communication interval and largest MAXT
MaxNSTP == 2       \* most sub-steps per communication interval
InitialValues == {100}
Rates == {1, 2}

Min(a, b) == IF a <= b THEN a ELSE b
Abs(a) == IF a < 0 THEN -a ELSE a
Merge(f, g) ==
    [n \in DOMAIN f \cup DOMAIN g |-> IF n \in DOMAIN g THEN g[n] ELSE f[n]]
EmptyDict == [n \in {} |-> 0]

\* StatevarCollector.visit_Assign: the second argument of integ, by name or
\* by value
ICByName(n) == [is_str |-> TRUE, name |-> n, value |-> 0]
ICLiteral(v) == [is_str |-> FALSE, name |-> "", value |-> v]

\* IntegrationManager.set_step_size
set_step_size(maxt, cint, nstp) == Min(maxt, cint \div nstp)

\* the synthesized kernel calculate_dAdt(*, A, k, t)
calculate_dAdt(kwargs) == 0 - kwargs["k"]

\* IntegrationManager._get_kwargs
_get_kwargs(arg_names, state_var, time_state) ==
    [n \in Range(arg_names) \cup {state_var} |-> time_state[n]]

\* IntegrationManager.runge_kutta_fourth_order
runge_kutta_fourth_order(ic, time_state, h) ==
    LET arg_names == <<"k", "t", "A">>
        state_var == arg_names[Len(arg_names)]
        kwargs == _get_kwargs(arg_names, state_var, time_state)
        at(v) == [kwargs EXCEPT ![state_var] = v]
        k1 == calculate_dAdt(at(ic))
        k2 == calculate_dAdt(at(ic + (h * k1) \div 2))
        k3 == calculate_dAdt(at(ic + h * k2))
        k4 == calculate_dAdt(at(ic + h * k3))
    IN  ic + (h * (k1 + 2 * k2 + 2 * k3 + k4)) \div 6

\* the compiled DERIVATIVE section called with kwargs: the scope end() stores
DERIVATIVE(kwargs, svars, h) ==
    LET dAdt == 0 - kwargs["k"]
        locals == Merge(kwargs, [n \in {"dAdt"} |-> dAdt])
        ic == IF svars["A"].is_str THEN kwargs[svars["A"].name]
                                   ELSE svars["A"].value
        A == runge_kutta_fourth_order(ic, locals, h)
    IN  [section |-> "DERIVATIVE",
         locals |-> [locals EXCEPT !["A"] = A]]

\* the compiled DYNAMIC section: it only assigns the integration settings
DYNAMIC(kwargs) == [section |-> "DYNAMIC", locals |-> kwargs]

\* AcslRun._get_initial_arguments
_get_initial_arguments(consts, svars, now) ==
    LET initial_statevars ==
            [n \in DOMAIN svars \cup {"t"} |->
                IF n = "t" THEN now
                ELSE IF svars[n].is_str THEN consts[svars[n].name]
                ELSE svars[n].value]
    IN  Merge(consts, initial_statevars)

\* AcslRun._get_arguments
_get_arguments(consts, svars, scope, now) ==
    LET new_statevars ==
            [n \in DOMAIN svars |->
                IF svars[n].is_str THEN scope.locals[svars[n].name]
                ELSE svars[n].value]
        by_name == {n \in DOMAIN svars : svars[n].is_str}
        renamed ==
            [m \in {svars[n].name : n \in by_name} |->
                scope.locals[CHOOSE n \in by_name : svars[n].name = m]]
    IN  Merge(Merge([n \in {"t"} |-> now], consts),
              Merge(new_statevars, renamed))

\* DataFrame.loc[label] = row: the row of that label is replaced, a new label
\* is appended
SetRow(rows, row) ==
    IF \E i \in 1..Len(rows) : rows[i].t = row.t
    THEN [i \in 1..Len(rows) |-> IF rows[i].t = row.t THEN row ELSE rows[i]]
    ELSE Append(rows, row)

\* AcslRun._store_results: the row of the reported variables at self.t
_store_results(rows, scope, now) ==
    SetRow(rows, [t |-> now, A |-> scope.locals["A"]])

\* np.arange(0, TSTP + CINT, CINT)
RECURSIVE arange(_, _, _)
arange(start, stop, step) ==
    IF start >= stop THEN <<>> ELSE <<start>> \o arange(start + step, stop, step)

\* idxmin of |results.t - target_time|: the first row at the least distance
ClosestRow(rows, target_time) ==
    LET d(i) == Abs(rows[i].t - target_time)
        best == CHOOSE i \in 1..Len(rows) :
                    /\ \A j \in 1..Len(rows) : d(i) <= d(j)
                    /\ \A j \in 1..(i - 1) : d(j) > d(i)
    IN  rows[best]

\* AcslRun._get_final_results
_get_final_results(rows, stop, cint) ==
    LET cint_times == arange(0, stop + cint, cint)
        kept == SelectSeq(cint_times, LAMBDA target_time : target_time <= stop)
    IN  [i \in 1..Len(kept) |-> ClosestRow(rows, kept[i])]

\* run, first statement: _initialize_integration_routine
InitializeIntegrationRoutine ==
    /\ runPhase = "constructed"
    /\ LET kwargs == _get_initial_arguments(run_constants, statevars, t) IN
       /\ arguments' = kwargs
       /\ previous_section_scope' = DYNAMIC(kwargs)
    /\ runPhase' = "initialized"
    /\ UNCHANGED <<TSTP, run_CINT, NSTP, MAXT, step_size, statevars,
                   run_constants, t, results, final_results>>
    /\ UNCHANGED notRun

\* run, the block under "if self.t == 0"
FirstSample ==
    /\ runPhase = "initialized"
    /\ IF t = 0
       THEN LET kwargs == _get_initial_arguments(run_constants, statevars, t)
                scope == DERIVATIVE(kwargs, statevars, step_size) IN
            /\ arguments' = kwargs
            /\ previous_section_scope' = scope
            /\ results' = _store_results(results, scope, t)
            /\ t' = t + step_size
       ELSE UNCHANGED <<arguments, previous_section_scope, results, t>>
    /\ runPhase' = "loop"
    /\ UNCHANGED <<TSTP, run_CINT, NSTP, MAXT, step_size, statevars,
                   run_constants, final_results>>
    /\ UNCHANGED notRun

\* run, one iteration of "while self.t <= self.TSTP"
LoopIteration ==
    /\ runPhase = "loop"
    /\ t <= TSTP
    /\ LET kwargs == _get_arguments(run_constants, statevars,
                                    previous_section_scope, t)
           scope == DERIVATIVE(kwargs, statevars, step_size) IN
       /\ arguments' = kwargs
       /\ previous_section_scope' = scope
       /\ results' = _store_results(results, scope, t)
       /\ t' = t + step_size
    /\ UNCHANGED <<TSTP, run_CINT, NSTP, MAXT, step_size, statevars,
                   run_constants, final_results, runPhase>>
    /\ UNCHANGED notRun

\* run, the return statement
GetFinalResults ==
    /\ runPhase = "loop"
    /\ t > TSTP
    /\ final_results' = _get_final_results(results, TSTP, run_CINT)
    /\ runPhase' = "finished"
    /\ UNCHANGED <<TSTP, run_CINT, NSTP, MAXT, step_size, statevars,
                   run_constants, t, previous_section_scope, arguments,
                   results>>
    /\ UNCHANGED notRun

\* AcslRun.__init__ over the models and settings of the study
RunInit(stops, cints, maxts, nstps) ==
    /\ TSTP \in stops
    /\ run_CINT \in cints
    /\ MAXT \in maxts
    /\ NSTP \in {n \in nstps : run_CINT % n = 0}
    /\ step_size = set_step_size(MAXT, run_CINT, NSTP)
    /\ \E k \in Rates, InitialValue \in InitialValues :
         \/ /\ statevars = [n \in {"A"} |-> ICByName("A0")]
            /\ run_constants =
                 [n \in {"t", "k", "A0"} |->
                    IF n = "t" THEN 0 ELSE IF n = "k" THEN k ELSE InitialValue]
         \/ /\ statevars = [n \in {"A"} |-> ICLiteral(InitialValue)]
            /\ run_constants = [n \in {"t", "k"} |-> IF n = "t" THEN 0 ELSE k]
    /\ t = 0
    /\ previous_section_scope = [section |-> "", locals |-> EmptyDict]
    /\ arguments = EmptyDict
    /\ results = <<>>
    /\ final_results = <<>>
    /\ runPhase = "constructed"

\* the driver is not under study
RunIdle == RunInit({0}, {1}, {1}, {1}) /\ ~statevars["A"].is_str
              /\ run_constants["k"] = 1

(***************************************************************************)
(* C3: in every iteration of the stepping loop the argument built for a    *)
(* state variable is the value its integration call produced in the        *)
(* previous step, as the previous-step scope holds it, whether the initial *)
(* condition was declared by constant name or as a literal number.         *)
(***************************************************************************)
C3_ArgumentIsLatestValue ==
    [][(runPhase = "loop" /\ Len(results') > Len(results))
          => \A sv \in DOMAIN statevars :
                arguments'[sv] = previous_section_scope.locals[sv]]_runVars

(***************************************************************************)
(* C9: the table run returns has floor(TSTP / CINT) + 1 rows, the k-th     *)
(* being a dense row at the least distance from (k - 1) * CINT, and its t  *)
(* column is strictly increasing.                                          *)
(***************************************************************************)
C9_ResultGrid ==
    runPhase = "finished" =>
        /\ Len(final_results) = (TSTP \div run_CINT) + 1
        /\ \A i \in 1..Len(final_results) :
             /\ final_results[i] \in Range(results)
             /\ \A j \in 1..Len(results) :
                  Abs(final_results[i].t - (i - 1) * run_CINT)
                      <= Abs(results[j].t - (i - 1) * run_CINT)
        /\ \A i \in 1..(Len(final_results) - 1) :
             final_results[i].t < final_results[i + 1].t

(***************************************************************************)
(* C10: the row recorded at t = k * h holds, for the state variable, the   *)
(* result of exactly k integration steps from its initial condition; the   *)
(* first sample, at t = 0, holds the initial condition itself.             *)
(***************************************************************************)
RECURSIVE StepsFrom(_, _)
StepsFrom(ic, n) ==
    IF n = 0 THEN ic
    ELSE StepsFrom(runge_kutta_fourth_order(ic,
             _get_initial_arguments(run_constants, statevars, 0), step_size),
             n - 1)

C10_RowHoldsKSteps ==
    \A i \in 1..Len(results) :
        results[i].A =
            StepsFrom(_get_initial_arguments(run_constants, statevars, 0)["A"],
                      results[i].t \div step_size)

(***************************************************************************)
(* ACSL.__init__: section validation, then the section mapping.  The model *)
(* class is the sequence of its methods in name order, as                  *)
(* inspect.getmembers lists them, each with the tag its decorator left.    *)
(***************************************************************************)
MaxMethods == 5    \* most methods of a model class

SectionKinds == {"INITIAL", "DYNAMIC", "DERIVATIVE", "DISCRETE", "TERMINAL"}

\* a section decorator: the attributes it leaves on the method ("" is a
\* method without decorator)
Decorated(kind) ==
    [has_acsl_section |-> kind # "", _acsl_section |-> kind,
     _sort |-> kind = "DERIVATIVE"]

ModelClasses(n) ==
    UNION {[1..m -> {Decorated(k) : k \in SectionKinds \cup {""}}] : m \in 0..n}

DuplicateSection(section_type) ==
    [kind |-> "ValueError", msg |-> "Duplicate section", names |-> {section_type}]
RequiresDynamic(section_type) ==
    [kind |-> "ValueError", msg |-> "section requires DYNAMIC section",
     names |-> {section_type}]

\* a loop body that lets a second section of a kind pass
VisitMemberNoDuplicateCheck(found, method) ==
    IF ~method.has_acsl_section THEN [found |-> found, err |-> NoError]
    ELSE [found |-> found \cup {method._acsl_section}, err |-> NoError]

\* _validate_sections, the body of the loop over the members
VisitMember(found, method) ==
    IF ~method.has_acsl_section THEN [found |-> found, err |-> NoError]
    ELSE IF method._acsl_section \in found
    THEN [found |-> found, err |-> DuplicateSection(method._acsl_section)]
    ELSE [found |-> found \cup {method._acsl_section}, err |-> NoError]

\* a gate that forgets DISCRETE
CheckDynamicDerivativeOnly(found) ==
    IF "DERIVATIVE" \in found /\ "DYNAMIC" \notin found
    THEN RequiresDynamic("DERIVATIVE") ELSE NoError

\* _validate_sections, after the loop
CheckDynamic(found) ==
    LET has_dynamic == "DYNAMIC" \in found
        has_derivative == "DERIVATIVE" \in found
        has_discrete == "DISCRETE" \in found
    IN  IF (has_derivative \/ has_discrete) /\ ~has_dynamic
        THEN IF has_derivative THEN RequiresDynamic("DERIVATIVE")
                               ELSE RequiresDynamic("DISCRETE")
        ELSE NoError

\* _create_section_mapping: kind -> index of the method, later members win
CreateSectionMapping(ms) ==
    [k \in {ms[i]._acsl_section : i \in {j \in 1..Len(ms) : ms[j].has_acsl_section}}
        |-> CHOOSE i \in 1..Len(ms) :
                /\ ms[i].has_acsl_section /\ ms[i]._acsl_section = k
                /\ \A j \in (i + 1)..Len(ms) :
                     ~(ms[j].has_acsl_section /\ ms[j]._acsl_section = k)]

\* _find_sections_to_sort
FindSectionsToSort(ms, mapping) ==
    {k \in DOMAIN mapping : ms[mapping[k]]._sort}

ValidateMember ==
    /\ modelPhase = "validate"
    /\ member_index <= Len(members)
    /\ LET r == VisitMember(found_sections, members[member_index]) IN
       /\ found_sections' = r.found
       /\ modelError' = r.err
       /\ modelPhase' = IF r.err = NoError THEN "validate" ELSE "raised"
    /\ member_index' = member_index + 1
    /\ UNCHANGED <<members, section_mapping, sections_to_sort>>
    /\ UNCHANGED notModel

ValidateDynamic ==
    /\ modelPhase = "validate"
    /\ member_index > Len(members)
    /\ modelError' = CheckDynamic(found_sections)
    /\ modelPhase' = IF CheckDynamic(found_sections) = NoError
                     THEN "validated" ELSE "raised"
    /\ UNCHANGED <<members, member_index, found_sections, section_mapping,
                   sections_to_sort>>
    /\ UNCHANGED notModel

FinishConstruction ==
    /\ modelPhase = "validated"
    /\ section_mapping' = CreateSectionMapping(members)
    /\ sections_to_sort' =
          FindSectionsToSort(members, CreateSectionMapping(members))
    /\ modelPhase' = "constructed"
    /\ UNCHANGED <<members, member_index, found_sections, modelError>>
    /\ UNCHANGED notModel

ModelInit(classes) ==
    /\ members \in classes
    /\ member_index = 1
    /\ found_sections = {}
    /\ section_mapping = EmptyDict
    /\ sections_to_sort = {}
    /\ modelError = NoError
    /\ modelPhase = "validate"

\* no model class is under construction
ModelIdle == ModelInit({<<>>})

KindsDeclared(ms) ==
    {ms[i]._acsl_section : i \in {j \in 1..Len(ms) : ms[j].has_acsl_section}}
KindsDeclaredTwice(ms) ==
    {k \in SectionKinds :
        Cardinality({i \in 1..Len(ms) :
            ms[i].has_acsl_section /\ ms[i]._acsl_section = k}) >= 2}
ConstructionOver == modelPhase \in {"constructed", "raised"}

NotImplementedError(m) == [kind |-> "NotImplementedError", msg |-> m, names |-> {}]

\* IntegrationManager.__init__: the keys of integ_methods
integ_method_ids == 1..10
\* the keys whose slot holds a method (slot 6 holds None)
integ_method_slots == integ_method_ids \ {6}

Kernel(arg_names, law) == [arg_names |-> arg_names, law |-> law]

\* the value a synthesized kernel returns for its keyword arguments
EvalKernel(f, kwargs) ==
    CASE f.law = "-k*y+z" -> 0 - kwargs["k"] * kwargs["y"] + kwargs["z"]
      [] f.law = "-k*z" -> 0 - kwargs["k"] * kwargs["z"]
      [] f.law = "k*y" -> kwargs["k"] * kwargs["y"]
      [] OTHER -> 0 - kwargs["k"]

\* the classical scheme: the third stage at half a step
rk4_stages_classical(deriv_function, ic, time_state, h) ==
    LET arg_names == deriv_function.arg_names
        state_var == arg_names[Len(arg_names)]
        kwargs == _get_kwargs(arg_names, state_var, time_state)
        at(v) == [kwargs EXCEPT ![state_var] = v]
        k1 == EvalKernel(deriv_function, at(ic))
        k2 == EvalKernel(deriv_function, at(ic + (h * k1) \div 2))
        k3 == EvalKernel(deriv_function, at(ic + (h * k2) \div 2))
        k4 == EvalKernel(deriv_function, at(ic + h * k3))
    IN  [calls |-> <<at(ic), at(ic + (h * k1) \div 2),
                     at(ic + (h * k2) \div 2), at(ic + h * k3)>>,
         value |-> ic + (h * (k1 + 2 * k2 + 2 * k3 + k4)) \div 6]

\* IntegrationManager.runge_kutta_fourth_order for any kernel: the keyword
\* arguments of its kernel calls, in order, and the value it returns
rk4_stages(deriv_function, ic, time_state, h) ==
    LET arg_names == deriv_function.arg_names
        state_var == arg_names[Len(arg_names)]
        kwargs == _get_kwargs(arg_names, state_var, time_state)
        at(v) == [kwargs EXCEPT ![state_var] = v]
        k1 == EvalKernel(deriv_function, at(ic))
        k2 == EvalKernel(deriv_function, at(ic + (h * k1) \div 2))
        k3 == EvalKernel(deriv_function, at(ic + h * k2))
        k4 == EvalKernel(deriv_function, at(ic + h * k3))
    IN  [calls |-> <<at(ic), at(ic + (h * k1) \div 2),
                     at(ic + h * k2), at(ic + h * k3)>>,
         value |-> ic + (h * (k1 + 2 * k2 + 2 * k3 + k4)) \div 6]

\* IntegrationManager.integrate: self.integ_methods[self.IALG](...)
integrate(ialg, functions, deriv_name, ic, time_state, h) ==
    IF ialg = 5
    THEN LET r == rk4_stages(functions[deriv_name], ic, time_state, h) IN
         [calls |-> r.calls, value |-> r.value, err |-> NoError]
    ELSE IF ialg \in integ_method_slots
    THEN [calls |-> <<>>, value |-> 0,
          err |-> NotImplementedError("integration is not implemented")]
    ELSE [calls |-> <<>>, value |-> 0,
          err |-> TypeError("'NoneType' object is not callable")]

\* IntegrationManager.__init__
ConstructManager ==
    /\ managerPhase = "new"
    /\ IF IALG \notin integ_method_ids
       THEN /\ managerError' = ValueError("IALG must be between 1 and 10")
            /\ managerPhase' = "raised"
            /\ UNCHANGED step_size
       ELSE /\ step_size' = set_step_size(MAXT, run_CINT, NSTP)
            /\ managerPhase' = "ready"
            /\ UNCHANGED managerError
    /\ UNCHANGED <<IALG, derivative_functions, integ_request, kernel_calls,
                   integ_return>>
    /\ UNCHANGED <<TSTP, run_CINT, NSTP, MAXT, statevars, run_constants, t,
                   previous_section_scope, arguments, results, final_results,
                   runPhase>>
    /\ UNCHANGED notRunNorManager

RequestValues == {-1, 2, 5}
RequestRates == {1, 2}

\* one call of IntegrationManager.integrate, as AcslLib.integ issues it
Integrate ==
    /\ managerPhase = "ready"
    /\ \E ic \in RequestValues, z \in RequestValues, k \in RequestRates,
          now \in {0, step_size} :
         LET time_state ==
                 [n \in {"k", "z", "t", "y", "dy"} |->
                     IF n = "k" THEN k ELSE IF n = "z" THEN z
                     ELSE IF n = "t" THEN now ELSE IF n = "y" THEN ic ELSE 0]
             r == integrate(IALG, derivative_functions, "dy", ic, time_state,
                            step_size)
         IN  /\ integ_request' = [deriv_name |-> "dy", ic |-> ic,
                                  time_state |-> time_state]
             /\ kernel_calls' = r.calls
             /\ integ_return' = r.value
             /\ managerError' = r.err
             /\ managerPhase' = IF r.err = NoError THEN "returned" ELSE "failed"
    /\ UNCHANGED <<IALG, derivative_functions>>
    /\ UNCHANGED notManager

NoRequest == [deriv_name |-> "", ic |-> 0, time_state |-> EmptyDict]

ManagerInit(ialgs) ==
    /\ IALG \in ialgs
    /\ derivative_functions =
          [n \in {"dy"} |-> Kernel(<<"k", "z", "t", "y">>, "-k*y+z")]
    /\ integ_request = NoRequest
    /\ kernel_calls = <<>>
    /\ integ_return = 0
    /\ managerError = NoError
    /\ managerPhase = "new"

\* no manager is under study
ManagerIdle == ManagerInit({5})

(***************************************************************************)
(* C13: for every IALG in {1,2,3,4,6,7,8,9,10} an integration request      *)
(* fails at once with a not-implemented error, a kind of error other than  *)
(* the configuration error raised for an IALG outside 1..10.               *)
(***************************************************************************)
C13_UnimplementedSlotsFailFast ==
    /\ (managerPhase \in {"returned", "failed"}
            /\ IALG \in {1, 2, 3, 4, 6, 7, 8, 9, 10})
         => /\ managerPhase = "failed"
            /\ kernel_calls = <<>>
            /\ managerError.kind = "NotImplementedError"
    /\ (managerPhase = "raised")
         => (IALG \notin 1..10 /\ managerError.kind = "ValueError")

(***************************************************************************)
(* C19: one integration request with IALG = 5 evaluates the kernel exactly *)
(* four times, in the order k1, k2, k3, k4, with the state input y,        *)
(* y + h*k1/2, y + h*k2 and y + h*k3 and with every other input as the     *)
(* request supplied it in all four calls, and returns                      *)
(* y + (h/6)*(k1 + 2*k2 + 2*k3 + k4).                                      *)
(***************************************************************************)
RequestKernel == derivative_functions[integ_request.deriv_name]
RequestStateVar == RequestKernel.arg_names[Len(RequestKernel.arg_names)]
StageSlope(i) == EvalKernel(RequestKernel, kernel_calls[i])

C19_FourStagesInOrder ==
    (managerPhase \in {"returned", "failed"} /\ IALG = 5) =>
        LET y == integ_request.ic
            h == step_size
            sv == RequestStateVar
            others == {RequestKernel.arg_names[i] :
                          i \in 1..Len(RequestKernel.arg_names)} \ {sv}
        IN  /\ managerPhase = "returned"
            /\ Len(kernel_calls) = 4
            /\ kernel_calls[1][sv] = y
            /\ 2 * kernel_calls[2][sv] = 2 * y + h * StageSlope(1)
            /\ kernel_calls[3][sv] = y + h * StageSlope(2)
            /\ kernel_calls[4][sv] = y + h * StageSlope(3)
            /\ \A i \in 1..4 :
                  /\ DOMAIN kernel_calls[i] = others \cup {sv}
                  /\ \A n \in others :
                        kernel_calls[i][n] = integ_request.time_state[n]
            /\ 6 * integ_return =
                  6 * y + h * (StageSlope(1) + 2 * StageSlope(2)
                               + 2 * StageSlope(3) + StageSlope(4))

\* a request whose four stages all have different state inputs and slopes
C19_Witness ==
    /\ managerPhase = "returned"
    /\ IALG = 5
    /\ Len(kernel_calls) = 4
    /\ Cardinality({kernel_calls[i][RequestStateVar] : i \in 1..4}) = 4
    /\ Cardinality({StageSlope(i) : i \in 1..4}) = 4
    /\ integ_request.time_state["z"] # 0
    /\ integ_return # integ_request.ic

(***************************************************************************)
(* C14: run terminates.  For every stop time and every step size the       *)
(* Integration Manager can produce, h = min(MAXT, CINT/NSTP), the stepping *)
(* loop exits after finitely many iterations, as soon as t exceeds the     *)
(* stop time.                                                              *)
(*                                                                         *)
(* MAXT is a literal of the DYNAMIC section and nothing checks its sign:   *)
(* the step sizes the manager can produce include 0.  With a step of 0 an  *)
(* iteration of the loop stores its row under the label it stored the      *)
(* last one under and leaves t as it was: the driver repeats the same      *)
(* state for ever.                                                         *)
(***************************************************************************)
MaxLiveStop == 6

C14_RunTerminates ==
    /\ <>(runPhase = "finished")
    /\ [](runPhase = "finished" => (t > TSTP /\ t - step_size <= TSTP))

(***************************************************************************)
(* The reported columns: the report list from the caller to the table.     *)
(***************************************************************************)
MaxReport == 2
ReportNames == {"A", "dAdt", "k"}
ReportLists(n) == UNION {[1..m -> ReportNames] : m \in 0..n}
StatevarNames == {{"A"}, {"A", "B"}}

\* the default of AcslBuild's report parameter
NoReport == Val("NoneType", <<>>)

\* list(a_set): the elements once each, in an order the caller cannot choose
ListsOfSet(S) ==
    {f \in [1..Cardinality(S) -> S] : Injective(f)}

\* AcslBuild.__init__: self.variables_to_report = report
BuildKeepsReport ==
    /\ reportPhase = "called"
    /\ variables_to_report' = report
    /\ reportPhase' = "built"
    /\ UNCHANGED <<report, report_statevars, columns, reportError>>
    /\ UNCHANGED notReport

\* AcslRun.__init__, from build's return statement: list + list, set, columns
ConstructRun ==
    /\ reportPhase = "built"
    /\ IF variables_to_report.ty # "list"
       THEN /\ reportError' = TypeError("unsupported operand type(s) for +")
            /\ reportPhase' = "raised"
            /\ UNCHANGED <<variables_to_report, columns>>
       ELSE /\ variables_to_report' =
                  Val("set", Range(variables_to_report.v) \cup report_statevars)
            /\ columns' \in {<<"t">> \o l :
                  l \in ListsOfSet(Range(variables_to_report.v)
                                      \cup report_statevars)}
            /\ reportPhase' = "constructed"
            /\ UNCHANGED reportError
    /\ UNCHANGED <<report, report_statevars>>
    /\ UNCHANGED notReport

ReportInit(reports, statevar_names) ==
    /\ report \in reports
    /\ report_statevars \in statevar_names
    /\ variables_to_report = NoReport
    /\ columns = <<>>
    /\ reportError = NoError
    /\ reportPhase = "called"

\* no report is under study
ReportIdle == ReportInit({Val("list", <<>>)}, {{"A"}})

(***************************************************************************)
(* C15: the reported columns are t followed by exactly the union of the    *)
(* report names the caller supplied and all state-variable names; the      *)
(* report list is optional: without one, construction succeeds and the     *)
(* columns are t and the state variables alone.                            *)
(***************************************************************************)
C15_ReportedColumns ==
    (reportPhase \in {"constructed", "raised"}) =>
        LET supplied == IF report.ty = "NoneType" THEN {} ELSE Range(report.v)
            expected == supplied \cup report_statevars
        IN  /\ reportPhase = "constructed"
            /\ columns # <<>>
            /\ Head(columns) = "t"
            /\ Range(Tail(columns)) = expected
            /\ Len(Tail(columns)) = Cardinality(expected)

(***************************************************************************)
(* The initial dry run: AcslRun._initialize_integration_routine calls      *)
(* DERIVATIVE and then DYNAMIC on the initial arguments.  A section is a   *)
(* Python function whose parameters are the keys of the arguments; a name  *)
(* it reads that is neither a parameter nor assigned is looked up as a     *)
(* global and raises NameError, and a name assigned only further down      *)
(* raises UnboundLocalError.                                               *)
(***************************************************************************)
KeyError(n) == [kind |-> "KeyError", msg |-> "", names |-> {n}]
NameError(n) == [kind |-> "NameError", msg |-> "is not defined", names |-> {n}]
UnboundLocalError(n) ==
    [kind |-> "UnboundLocalError", msg |-> "referenced before assignment",
     names |-> {n}]
SectionFailed(section_name) ==
    [kind |-> "ValueError", msg |-> "section failed to run",
     names |-> {section_name}]

RECURSIVE FirstUnboundIn(_, _), FirstUnbound(_, _), SectionRaises(_, _, _)
\* the first name, in evaluation order, that an expression reads unbound
FirstUnbound(e, bound) ==
    IF e.op = "Name" THEN (IF e.id \in bound THEN "" ELSE e.id)
    ELSE FirstUnboundIn(e.args, bound)
FirstUnboundIn(es, bound) ==
    IF es = <<>> THEN ""
    ELSE LET n == FirstUnbound(Head(es), bound) IN
         IF n # "" THEN n ELSE FirstUnboundIn(Tail(es), bound)

\* the exception the call of a section function lets out, NoError if none
SectionRaises(body, bound, locals) ==
    IF body = <<>> THEN NoError
    ELSE LET stmt == Head(body)
             n == FirstUnbound(stmt.value, bound) IN
         IF n # ""
         THEN (IF n \in locals THEN UnboundLocalError(n) ELSE NameError(n))
         ELSE SectionRaises(Tail(body),
                 IF IsAssignment(stmt)
                 THEN bound \cup {stmt.targets[1].id} ELSE bound,
                 locals)

LocalsOf(body) ==
    {body[i].targets[1].id : i \in {j \in 1..Len(body) : IsAssignment(body[j])}}

\* AcslRun._get_initial_arguments: the exception it raises, or the keys of
\* the arguments it returns
InitialArgumentNames(constant_names_, svars) ==
    LET missing == {v \in DOMAIN svars : svars[v] \notin constant_names_} IN
    IF missing # {}
    THEN [err |-> KeyError(svars[CHOOSE v \in missing : TRUE]), keys |-> {}]
    ELSE [err |-> NoError, keys |-> constant_names_ \cup DOMAIN svars \cup {"t"}]

\* one try block of _initialize_integration_routine
DryCall(section_name, body, constant_names_, svars) ==
    LET a == InitialArgumentNames(constant_names_, svars)
        raised == IF a.err # NoError THEN a.err
                  ELSE SectionRaises(body, a.keys, LocalsOf(body))
    IN  IF raised.kind \in {"ValueError", "KeyError"}
        THEN [failed |-> TRUE, err |-> SectionFailed(section_name)]
        ELSE [failed |-> raised # NoError, err |-> raised]

\* _initialize_integration_routine, the first try block
DryRunDerivative ==
    /\ dryPhase = "constructed"
    /\ LET r == DryCall("DERIVATIVE", dry_derivative, dry_constants,
                        dry_statevars) IN
       /\ dryError' = r.err
       /\ dry_failed' = IF r.failed THEN "DERIVATIVE" ELSE ""
       /\ dryPhase' = IF r.failed THEN "raised" ELSE "derivative"
    /\ UNCHANGED <<dry_derivative, dry_dynamic, dry_constants, dry_statevars>>
    /\ UNCHANGED notDry

\* _initialize_integration_routine, the second try block
DryRunDynamic ==
    /\ dryPhase = "derivative"
    /\ LET r == DryCall("DYNAMIC", dry_dynamic, dry_constants,
                        dry_statevars) IN
       /\ dryError' = r.err
       /\ dry_failed' = IF r.failed THEN "DYNAMIC" ELSE ""
       /\ dryPhase' = IF r.failed THEN "raised" ELSE "initialized"
    /\ UNCHANGED <<dry_derivative, dry_dynamic, dry_constants, dry_statevars>>
    /\ UNCHANGED notDry

\* the DERIVATIVE body of the study, as the sorter emits it: the sorter
\* rejects a body that reads a name that is neither assigned nor a constant
DryDerivatives ==
    { << Assign("dAdt", UnaryOp(Name("k"))),
         Assign("A", Call("integ", <<Name("dAdt"), Name("A0")>>)),
         ExprStmt(Call("end", <<>>)) >> }
\* the statements DYNAMIC, which is not sorted, is authored from
DryDynamicPool ==
    { Assign("out", BinOp(Name("A"), Name("c"))),
      Assign("c2", BinOp(Name("out"), Name("k"))),
      Assign("IALG", Num(5)) }
DryDynamics ==
    {f \in UNION {[1..m -> DryDynamicPool] : m \in 0..3} : Injective(f)}
DryConstantSets == {S \cup {"k"} : S \in SUBSET {"r", "c", "A0"}}

DryInit(derivatives, dynamics, constant_sets) ==
    /\ dry_derivative \in derivatives
    /\ dry_dynamic \in dynamics
    /\ dry_constants \in constant_sets
    /\ dry_statevars = [v \in {"A"} |-> "A0"]
    /\ dry_failed = ""
    /\ dryError = NoError
    /\ dryPhase = "constructed"

\* no dry run is under study
DryIdle == DryInit({<<>>}, {<<>>}, {{"A0"}})

(***************************************************************************)
(* C16: when DERIVATIVE or DYNAMIC raises during the initial dry run       *)
(* because a name it refers to is undefined, run lets out one "section     *)
(* failed to run" error that names the failing section, whatever the kind  *)
(* of the exception underneath.                                            *)
(***************************************************************************)
C16_DryRunFailureNamesSection ==
    (dryPhase = "raised") =>
        /\ dryError.kind = "ValueError"
        /\ dryError.msg = "section failed to run"
        /\ dryError.names = {dry_failed}

(***************************************************************************)
(* Sections with a procedural block.  The block                            *)
(*     @PROCEDURAL                                                         *)
(*     def helper(a, b): ...; return c                                     *)
(* is a FunctionDef node of the body.                                      *)
(***************************************************************************)
MaxProcStmts == 4

ProceduralDef(fname, params, returns) ==
    [node |-> "FunctionDef", targets |-> <<>>, value |-> TupleNode(returns),
     name |-> fname, params |-> params]

helper == ProceduralDef("helper", <<"a", "b">>, <<Name("c")>>)

ProceduralPool ==
    { helper,
      Assign("a", Name("k")),
      Assign("b", BinOp(Name("a"), Name("k"))),
      Assign("d", BinOp(Name("c"), Name("k"))),
      ExprStmt(Call("end", <<>>)) }

\* the authored bodies that hold the block
ProceduralBodies(n) ==
    {f \in UNION {[1..m -> ProceduralPool] : m \in 1..n} :
        Injective(f) /\ helper \in Range(f)}

BlockIndex == CHOOSE i \in 1..Len(section) : section[i] = helper
HelperCall == Assign("c", Call("helper", <<Name("a"), Name("b")>>))
CallIndexes == {i \in 1..Len(sorted_tree.body) : sorted_tree.body[i] = HelperCall}

MaxSharedStmts == 4

SharedPool ==
    { Assign("a", Name("k")),
      Assign("dy", BinOp(Name("a"), Name("y"))),
      Assign("y", Call("integ", <<Name("dy"), Name("y0")>>)),
      Assign("z", Call("integ", <<Name("dy"), Name("y0")>>)),
      Assign("dw", BinOp(Name("k"), Name("y"))),
      Assign("w", Call("integ", <<Name("dw"), Name("y0")>>)) }

SharedBodies(n) ==
    {f \in UNION {[1..m -> SharedPool] : m \in 1..n} : Injective(f)}

\* the kernels the synthesizer returned for a derivative name
KernelsUnder(diff_var) ==
    {n \in 1..Len(deriv_functions) : deriv_functions[n].name = diff_var}

(***************************************************************************)
(* C20: after a build, for every state variable y defined by               *)
(* y = integ(dy, ic) there is exactly one derivative kernel for y, stored  *)
(* under dy, whose state parameter is y: one kernel per state variable,    *)
(* also when two state variables name the same derivative.                 *)
(***************************************************************************)
C20_OneKernelPerStateVariable ==
    synthPhase = "done" =>
        LET pairs == _detect_integ_calls(sorted_tree.body) IN
        \A i \in 1..Len(pairs) :
            /\ Cardinality({n \in KernelsUnder(pairs[i].diff_var) :
                  deriv_functions[n].state_var = pairs[i].state_var}) = 1
            /\ Cardinality({n \in 1..Len(deriv_functions) :
                  deriv_functions[n].state_var = pairs[i].state_var}) = 1

(***************************************************************************)
(* A run of a model with two state variables, each other's input:          *)
(*     dy = 0 - k * z;  y = integ(dy, y0)                                  *)
(*     dz = k * y;      z = integ(dz, z0)                                  *)
(* The sorter may emit the four statements in any order that puts a        *)
(* derivative before its integration call.  Neither kernel reads its own   *)
(* state variable, so the fourth-order scheme is exact on integers.        *)
(* kernel_calls holds the kernel calls of the latest call of DERIVATIVE.   *)
(***************************************************************************)
MaxCoupledStop == 3

DerivStmt(target, law) ==
    [kind |-> "assign", target |-> target, law |-> law, deriv |-> ""]
IntegStmt(target, deriv) ==
    [kind |-> "integ", target |-> target, law |-> "", deriv |-> deriv]

CoupledStatements ==
    { DerivStmt("dy", "-k*z"), IntegStmt("y", "dy"),
      DerivStmt("dz", "k*y"), IntegStmt("z", "dz") }

\* the bodies AcslSort can emit for the section: every topological order
CoupledBodies ==
    {f \in [1..4 -> CoupledStatements] :
        /\ Injective(f)
        /\ \A i, j \in 1..4 :
              (f[i].kind = "assign" /\ f[j].kind = "integ"
                 /\ f[j].deriv = f[i].target) => i < j}

CoupledInitialValues == {1, 4}

CoupledKernels ==
    [n \in {"dy", "dz"} |->
        IF n = "dy" THEN Kernel(<<"k", "z", "t", "y">>, "-k*z")
                    ELSE Kernel(<<"k", "y", "t", "z">>, "k*y")]

\* AcslLib.integ as the section calls it: the caller's locals at the time of
\* the call are the time state of the request
integ(deriv_name, ic, locals, functions, h) ==
    rk4_stages(functions[deriv_name], ic, locals, h)

RECURSIVE ExecBody(_, _, _, _, _, _)
\* the statements of the compiled section, top to bottom
ExecBody(body, locals, calls, svars, functions, h) ==
    IF body = <<>> THEN [locals |-> locals, calls |-> calls]
    ELSE LET stmt == Head(body) IN
         IF stmt.kind = "assign"
         THEN ExecBody(Tail(body),
                 Merge(locals, [n \in {stmt.target} |->
                                   EvalKernel([law |-> stmt.law], locals)]),
                 calls, svars, functions, h)
         ELSE LET ic == IF svars[stmt.target].is_str
                        THEN locals[svars[stmt.target].name]
                        ELSE svars[stmt.target].value
                  r == integ(stmt.deriv, ic, locals, functions, h)
              IN  ExecBody(Tail(body),
                     Merge(locals, [n \in {stmt.target} |-> r.value]),
                     calls \o [i \in 1..4 |->
                                  [state_var |-> stmt.target,
                                   kwargs |-> r.calls[i]]],
                     svars, functions, h)

\* the compiled DERIVATIVE section called with kwargs: the scope end() stores
\* and the kernel calls made on the way
CoupledDERIVATIVE(body, kwargs, svars, functions, h) ==
    LET r == ExecBody(body, kwargs, <<>>, svars, functions, h) IN
    [scope |-> [section |-> "DERIVATIVE", locals |-> r.locals],
     calls |-> r.calls]

\* AcslRun._store_results for the report set {y, z}
_store_results_of(names, rows, scope, now) ==
    SetRow(rows, [n \in names \cup {"t"} |->
                     IF n = "t" THEN now ELSE scope.locals[n]])

CoupledUnchanged ==
    /\ UNCHANGED <<TSTP, run_CINT, NSTP, MAXT, step_size, statevars,
                   run_constants, final_results>>
    /\ UNCHANGED <<IALG, derivative_functions, integ_request, integ_return,
                   managerError, managerPhase>>
    /\ UNCHANGED notRunNorManager

\* _initialize_integration_routine: DERIVATIVE, then DYNAMIC
CoupledInitialize ==
    /\ runPhase = "constructed"
    /\ LET kwargs == _get_initial_arguments(run_constants, statevars, t)
           d == CoupledDERIVATIVE(derivative_body, kwargs, statevars,
                                  derivative_functions, step_size) IN
       /\ arguments' = kwargs
       /\ kernel_calls' = d.calls
       /\ previous_section_scope' = DYNAMIC(kwargs)
    /\ runPhase' = "initialized"
    /\ UNCHANGED <<t, results>>
    /\ CoupledUnchanged

\* run, the block under "if self.t == 0"
CoupledFirstSample ==
    /\ runPhase = "initialized"
    /\ IF t = 0
       THEN LET kwargs == _get_initial_arguments(run_constants, statevars, t)
                d == CoupledDERIVATIVE(derivative_body, kwargs, statevars,
                                       derivative_functions, step_size) IN
            /\ arguments' = kwargs
            /\ kernel_calls' = d.calls
            /\ previous_section_scope' = d.scope
            /\ results' = _store_results_of(DOMAIN statevars, results,
                                            d.scope, t)
            /\ t' = t + step_size
       ELSE UNCHANGED <<arguments, kernel_calls, previous_section_scope,
                        results, t>>
    /\ runPhase' = "loop"
    /\ CoupledUnchanged

\* run, one iteration of "while self.t <= self.TSTP"
CoupledLoopIteration ==
    /\ runPhase = "loop"
    /\ t <= TSTP
    /\ LET kwargs == _get_arguments(run_constants, statevars,
                                    previous_section_scope, t)
           d == CoupledDERIVATIVE(derivative_body, kwargs, statevars,
                                  derivative_functions, step_size) IN
       /\ arguments' = kwargs
       /\ kernel_calls' = d.calls
       /\ previous_section_scope' = d.scope
       /\ results' = _store_results_of(DOMAIN statevars, results, d.scope, t)
       /\ t' = t + step_size
    /\ UNCHANGED runPhase
    /\ CoupledUnchanged

\* run, the return statement
CoupledFinish ==
    /\ runPhase = "loop"
    /\ t > TSTP
    /\ runPhase' = "finished"
    /\ UNCHANGED <<t, previous_section_scope, arguments, results,
                   kernel_calls>>
    /\ CoupledUnchanged

CoupledInit(stops, cints, maxts, nstps) ==
    /\ TSTP \in stops
    /\ run_CINT \in cints
    /\ MAXT \in maxts
    /\ NSTP \in {n \in nstps : run_CINT % n = 0}
    /\ step_size = set_step_size(MAXT, run_CINT, NSTP)
    /\ derivative_body \in CoupledBodies
    /\ statevars = [n \in {"y", "z"} |->
                      IF n = "y" THEN ICByName("y0") ELSE ICByName("z0")]
    /\ \E k \in Rates, y0 \in CoupledInitialValues, z0 \in CoupledInitialValues :
         run_constants =
             [n \in {"t", "k", "y0", "z0"} |->
                IF n = "t" THEN 0 ELSE IF n = "k" THEN k
                ELSE IF n = "y0" THEN y0 ELSE z0]
    /\ t = 0
    /\ previous_section_scope = [section |-> "", locals |-> EmptyDict]
    /\ arguments = EmptyDict
    /\ results = <<>>
    /\ final_results = <<>>
    /\ runPhase = "constructed"
    /\ IALG = 5
    /\ derivative_functions = CoupledKernels
    /\ integ_request = NoRequest
    /\ kernel_calls = <<>>
    /\ integ_return = 0
    /\ managerError = NoError
    /\ managerPhase = "ready"

\* no coupled model is under study
CoupledIdle == derivative_body = <<>>

(***************************************************************************)
(* C18: when the kernel of a state variable y is evaluated during step     *)
(* n+1, the value it is given for every other state variable z is the      *)
(* value of z that step n closed out (the previous section scope),         *)
(* whatever the order of the integration calls of y and z in the sorted    *)
(* DERIVATIVE body.                                                        *)
(***************************************************************************)
C18_OtherStateFromPreviousStep ==
    [][ (runPhase = "loop" /\ runPhase' = "loop" /\ derivative_body # <<>>)
          => \A i \in 1..Len(kernel_calls') :
                \A z \in DOMAIN statevars \ {kernel_calls'[i].state_var} :
                    z \in DOMAIN kernel_calls'[i].kwargs
                      => kernel_calls'[i].kwargs[z]
                            = previous_section_scope.locals[z]
      ]_<<runVars, managerVars>>

(***************************************************************************)
(* Section invocations of a run.  AcslRun.run calls the bound section      *)
(* callables self.derivative and self.dynamic; section_calls records every *)
(* call with its keyword arguments and the driver's time at the call.      *)
(***************************************************************************)
MaxTraceStop == 4

SectionCall(section_name, kwargs, now) ==
    [section |-> section_name, arguments |-> kwargs, at |-> now]

TracedUnchanged ==
    /\ UNCHANGED <<TSTP, run_CINT, NSTP, MAXT, step_size, statevars,
                   run_constants, final_results>>
    /\ UNCHANGED notRunNorTrace

\* _initialize_integration_routine: self.derivative(**initial arguments),
\* then self.dynamic(**initial arguments)
TracedInitialize ==
    /\ runPhase = "constructed"
    /\ LET kwargs == _get_initial_arguments(run_constants, statevars, t) IN
       /\ arguments' = kwargs
       /\ section_calls' = section_calls \o
              << SectionCall("DERIVATIVE", kwargs, t),
                 SectionCall("DYNAMIC", kwargs, t) >>
       /\ previous_section_scope' = DYNAMIC(kwargs)
    /\ runPhase' = "initialized"
    /\ UNCHANGED <<t, results>>
    /\ TracedUnchanged

\* run, the block under "if self.t == 0"
TracedFirstSample ==
    /\ runPhase = "initialized"
    /\ IF t = 0
       THEN LET kwargs == _get_initial_arguments(run_constants, statevars, t)
                scope == DERIVATIVE(kwargs, statevars, step_size) IN
            /\ arguments' = kwargs
            /\ section_calls' =
                   Append(section_calls, SectionCall("DERIVATIVE", kwargs, t))
            /\ previous_section_scope' = scope
            /\ results' = _store_results(results, scope, t)
            /\ t' = t + step_size
       ELSE UNCHANGED <<arguments, section_calls, previous_section_scope,
                        results, t>>
    /\ runPhase' = "loop"
    /\ TracedUnchanged

\* run, one iteration of "while self.t <= self.TSTP"
TracedLoopIteration ==
    /\ runPhase = "loop"
    /\ t <= TSTP
    /\ LET kwargs == _get_arguments(run_constants, statevars,
                                    previous_section_scope, t)
           scope == DERIVATIVE(kwargs, statevars, step_size) IN
       /\ arguments' = kwargs
       /\ section_calls' =
              Append(section_calls, SectionCall("DERIVATIVE", kwargs, t))
       /\ previous_section_scope' = scope
       /\ results' = _store_results(results, scope, t)
       /\ t' = t + step_size
    /\ UNCHANGED runPhase
    /\ TracedUnchanged

\* run, the return statement
TracedFinish ==
    /\ runPhase = "loop"
    /\ t > TSTP
    /\ final_results' = _get_final_results(results, TSTP, run_CINT)
    /\ runPhase' = "finished"
    /\ UNCHANGED <<TSTP, run_CINT, NSTP, MAXT, step_size, statevars,
                   run_constants, t, previous_section_scope, arguments,
                   results, section_calls>>
    /\ UNCHANGED notRunNorTrace

TraceInit == section_calls = <<>>

\* no run is being traced
TraceIdle == TraceInit

InitialArguments == _get_initial_arguments(run_constants, statevars, 0)

CallsOf(section_name) ==
    {i \in 1..Len(section_calls) : section_calls[i].section = section_name}

\* C21: a finished run has invoked DERIVATIVE exactly once with the initial
\* arguments, then DYNAMIC exactly once with the same arguments, then
\* DERIVATIVE exactly once for each time step t = h, 2h, ... <= stop-time,
\* and nothing else; DYNAMIC is never invoked inside the stepping loop.
C21_SectionInvocationOrder ==
    runPhase = "finished" =>
        /\ Len(section_calls) >= 2
        /\ section_calls[1] = SectionCall("DERIVATIVE", InitialArguments, 0)
        /\ section_calls[2] = SectionCall("DYNAMIC", InitialArguments, 0)
        /\ CallsOf("DYNAMIC") = {2}
        /\ {i \in CallsOf("DERIVATIVE") :
               section_calls[i].arguments = InitialArguments /\
               section_calls[i].at = 0} = {1}
        /\ \A i \in 3..Len(section_calls) :
               /\ section_calls[i].section = "DERIVATIVE"
               /\ section_calls[i].at = (i - 2) * step_size
        /\ (Len(section_calls) - 2) * step_size <= TSTP
        /\ (Len(section_calls) - 1) * step_size > TSTP

(***************************************************************************)
(* Delay call sites.  A section may assign the result of                   *)
(* self.delay(x, ic, tdl, nmx, delmin); AcslLib.delay takes a sixth        *)
(* argument delay_id, which defaults to None and must not be None.         *)
(***************************************************************************)
MaxDelayStmts == 4

\* the five authored arguments of a delay call on x
DelayArgs(x) == <<Name(x), Name("y0"), Num("2"), Num("4"), Num("1")>>
DelayStmt(target, x) == Assign(target, Call("delay", DelayArgs(x)))

DelayPool ==
    { DelayStmt("d", "a"),
      DelayStmt("b", "k"),
      Assign("a", BinOp(Name("k"), Name("k"))),
      Assign("a", BinOp(Name("d"), Name("k"))),
      Assign("b", BinOp(Name("d"), Name("k"))),
      ExprStmt(Call("end", <<>>)) }

DelayBodies(n) ==
    {f \in UNION {[1..m -> DelayPool] : m \in 1..n} : Injective(f)}

IsDelayAssignment(stmt) ==
    /\ stmt.node = "Assign"
    /\ stmt.value.op = "Call"
    /\ stmt.value.id = "delay"

\* the statements of the emitted body that assign var_name
EmittedFor(var_name) ==
    {i \in 1..Len(sorted_tree.body) :
        /\ IsAssignment(sorted_tree.body[i])
        /\ sorted_tree.body[i].targets[1].id = var_name}

\* AcslLib.delay, the check on delay_id: a call with the five authored
\* arguments leaves delay_id at None
DelayCallRaises(call) ==
    IF Len(call.args) < 6
    THEN ValueError("Delay buffer identifier (id) must be provided")
    ELSE NoError

\* C22: every assignment whose right-hand side calls delay is recorded by
\* the parser with kind "delay", and its statement in the sorted body calls
\* delay with one more positional argument than authored, the synthesized
\* identifier last, so that the delay operator is given a delay identifier.
C22_DelayCallCarriesIdentifier ==
    sortPhase = "sorted" =>
        \A i \in 1..Len(variable_map) :
            IsDelayAssignment(variable_map[i].stmt) =>
                /\ variable_map[i].type = "delay"
                /\ \A j \in EmittedFor(variable_map[i].key) :
                     LET call == sorted_tree.body[j].value IN
                     /\ call.id = "delay"
                     /\ Len(call.args) = Len(variable_map[i].stmt.value.args) + 1
                     /\ call.args[Len(call.args)].op = "Constant"
                     /\ DelayCallRaises(call) = NoError

(***************************************************************************)
(* Annotated assignments.  x: T = expr is an ast.AnnAssign node with one   *)
(* target; the annotation itself plays no part in the sorter.              *)
(***************************************************************************)
MaxAnnStmts == 3

AnnAssign(target, e) ==
    [node |-> "AnnAssign", targets |-> <<Name(target)>>, value |-> e,
     name |-> "", params |-> <<>>]

AnnotatedPool ==
    { AnnAssign("b", BinOp(Name("a"), Name("k"))),
      AnnAssign("a", UnaryOp(Name("k"))),
      AnnAssign("a", Name("k")),
      AnnAssign("y", Call("integ", <<Name("b"), Name("y0")>>)),
      Assign("a", BinOp(Name("k"), Name("k"))),
      Assign("a", BinOp(Name("b"), Name("k"))),
      ExprStmt(Call("end", <<>>)) }

AnnotatedBodies(n) ==
    {f \in UNION {[1..m -> AnnotatedPool] : m \in 1..n} :
        /\ Injective(f)
        /\ \E i \in DOMAIN f : f[i].node = "AnnAssign"}

\* the same section with every x: T = expr written as x = expr
Unannotated(body) ==
    [i \in 1..Len(body) |->
        IF body[i].node = "AnnAssign"
        THEN Assign(body[i].targets[1].id, body[i].value) ELSE body[i]]

\* what the parser records for a section, apart from the statement nodes and
\* the recorded kinds
Recorded(st) ==
    [err |-> st.err,
     map |-> [i \in 1..Len(st.map) |->
                 [key |-> st.map[i].key,
                  dependencies |-> st.map[i].dependencies]],
     svars |-> st.svars]

\* C23: a section with annotated assignments is parsed as the same section
\* with plain assignments (the same right-hand sides accepted, the same
\* dependencies recorded), and once every variable has been ordered its
\* sorted body is built, each statement after the assignments it depends on.
C23_AnnotatedAsPlain ==
    /\ sortPhase # "submitted" =>
          Recorded(collect_variables(section, constant_names, FALSE))
            = Recorded(collect_variables(Unannotated(section),
                                         constant_names, FALSE))
    /\ (sortPhase = "error" /\ sortError.kind = "ValueError")
          => sortError.msg = NotPossible
    /\ sortPhase = "sorted" =>
          /\ \A i \in 1..Len(variable_map) :
                EmittedFor(variable_map[i].key) # {}
          /\ \A i \in 1..Len(sorted_tree.body) :
                IsAssignment(sorted_tree.body[i]) =>
                    Range(MapGet(variable_map,
                          sorted_tree.body[i].targets[1].id).dependencies)
                        \subseteq AssignedBefore(sorted_tree.body, i)

(***************************************************************************)
(* Assignment targets.  ast.Assign.targets holds one node per "=" of the   *)
(* statement: a = b = e has two targets; a, b = e has one Tuple target.    *)
(***************************************************************************)
MaxTargetStmts == 3

ListNode(es) == [op |-> "List", id |-> "[]", args |-> es]

AssignTo(targets, e) ==
    [node |-> "Assign", targets |-> targets, value |-> e,
     name |-> "", params |-> <<>>]

TargetPool ==
    { AssignTo(<<Name("a"), Name("b")>>, BinOp(Name("k"), Name("k"))),
      AssignTo(<<TupleNode(<<Name("a"), Name("b")>>)>>,
               BinOp(Name("k"), Name("k"))),
      AssignTo(<<ListNode(<<Name("a"), Name("b")>>)>>,
               BinOp(Name("k"), Name("k"))),
      AssignTo(<<Subscript(Name("a"), Num("0"))>>,
               BinOp(Name("k"), Name("k"))),
      AssignTo(<<Name("a"), TupleNode(<<Name("b"), Name("dy")>>)>>,
               BinOp(Name("k"), Name("k"))),
      Assign("a", BinOp(Name("k"), Name("k"))),
      Assign("b", BinOp(Name("a"), Name("k"))),
      Assign("a", BinOp(Name("b"), Name("k"))),
      ExprStmt(Call("end", <<>>)) }

TargetBodies(n) ==
    {f \in UNION {[1..m -> TargetPool] : m \in 1..n} : Injective(f)}

SingleBareName(stmt) ==
    Len(stmt.targets) = 1 /\ stmt.targets[1].op = "Name"

\* C24: a section holding an assignment whose target is not a single bare
\* name (a chained assignment, a tuple or list target, a subscript target)
\* is rejected by the parser with an error.
C24_NonNameTargetsRejected ==
    (/\ sortPhase # "submitted"
     /\ \E i \in 1..Len(section) :
           section[i].node = "Assign" /\ ~SingleBareName(section[i]))
        => /\ sortPhase = "error"
           /\ sortError.kind \in {"ValueError", "TypeError"}
           /\ sortError.msg # NotPossible

(***************************************************************************)
(* The constant table and its three ingestion paths.  A value is           *)
(* [ty, elts]: the name of its Python type and, for a list, the types of   *)
(* its elements.  A name is [ty, s] as above.                              *)
(***************************************************************************)
MaxListLen == 2
MaxScopeLen == 2
MaxConstantCalls == 2

PyVal(ty, elts) == [ty |-> ty, elts |-> elts]
NumericTypes == {"int", "float", "bool"}
ObjectTypes == {"int", "float", "bool", "str", "NoneType"}

\* the element types lists are tried with
ElementTypes == {"int", "str"}
ListsOfTypes(n) == UNION {[1..m -> ElementTypes] : m \in 0..n}

\* the objects a local of INITIAL or an explicit registration may hold
PyValues ==
    {PyVal(ty, <<>>) : ty \in ObjectTypes}
        \cup {PyVal("list", e) : e \in ListsOfTypes(MaxListLen)}

TableNames == {StrName("a"), StrName("b")}
TableKeys(table) == {table[i].name : i \in 1..Len(table)}

\* ConstantManager.__init__: {"t": 0}
InitialTable == <<[name |-> StrName("t"), value |-> PyVal("int", <<>>)]>>

\* ConstantManager.set_constant on a table that keeps element types
ConstantManager_set_constant(table, name, value) ==
    IF name.ty # "str"
    THEN [constants |-> table,
          err |-> TypeError("Constant name must be a string")]
    ELSE IF value.ty \notin valid_types
    THEN [constants |-> table, err |-> TypeError("invalid type")]
    ELSE IF name \in TableKeys(table)
    THEN [constants |-> table, err |-> ValueError("already defined")]
    ELSE [constants |-> Append(table, [name |-> name, value |-> value]),
          err |-> NoError]

RECURSIVE SetConstants(_, _)
\* the loops of collect_initial_constants and of collect: set_constant on
\* each pair in turn, up to the first raise
SetConstants(table, pairs) ==
    IF pairs = <<>> THEN [constants |-> table, err |-> NoError]
    ELSE LET r == ConstantManager_set_constant(table, Head(pairs).name,
                                               Head(pairs).value) IN
         IF r.err # NoError THEN r
         ELSE SetConstants(r.constants, Tail(pairs))

\* the bindings of the INITIAL scope, in insertion order; the keys of a
\* frame's locals are strings
InitialScopes ==
    {f \in UNION {[1..m -> [name : TableNames, value : PyValues]] :
                     m \in 0..MaxScopeLen} :
        \A i, j \in DOMAIN f : f[i].name = f[j].name => i = j}

\* argument nodes of a self.constant(...) call: a literal of some type, a
\* list display of element nodes, or any other expression
Literal(ty, s) == [op |-> "Constant", ty |-> ty, id |-> s, elts |-> <<>>]
OtherNode == [op |-> "Name", ty |-> "", id |-> "x", elts |-> <<>>]
ListDisplay(elts) == [op |-> "List", ty |-> "", id |-> "", elts |-> elts]

NameArguments == {Literal("str", "a"), Literal("str", "b"),
                  Literal("int", "5"), OtherNode}
ElementNodes == {Literal("int", ""), Literal("str", "")}
ValueArguments ==
    {Literal(ty, "") : ty \in ObjectTypes}
        \cup {ListDisplay(e) :
                e \in UNION {[1..m -> ElementNodes] : m \in 0..MaxListLen}}
        \cup {OtherNode}

\* the calls with two arguments, and one call with three
ConstantCalls ==
    [name_arg : NameArguments, value_arg : ValueArguments, arguments : {2}]
        \cup {[name_arg |-> Literal("str", "a"),
                value_arg |-> Literal("int", ""), arguments |-> 3]}
SectionsOfCalls ==
    UNION {[1..m -> ConstantCalls] : m \in 1..MaxConstantCalls}

\* ConstantCollector.visit_Call on one self.constant call:
\* [err, found], err being the exception that leaves the visitor
visit_Call(call) ==
    IF call.arguments # 2
    THEN [err |-> ValueError("self.constant() must have 2 arguments"),
          found |-> <<>>]
    ELSE IF call.name_arg.op # "Constant"
    THEN [err |-> NoError, found |-> <<>>]
    ELSE LET const_name == [ty |-> call.name_arg.ty, s |-> call.name_arg.id]
             v == call.value_arg IN
         IF v.op = "List"
         THEN IF \A i \in 1..Len(v.elts) :
                    v.elts[i].op = "Constant" /\ v.elts[i].ty \in NumericTypes
              THEN [err |-> NoError,
                    found |-> <<[name |-> const_name,
                                 value |-> PyVal("list",
                                     [i \in 1..Len(v.elts) |-> v.elts[i].ty])]>>]
              ELSE [err |-> NoError, found |-> <<>>]
         ELSE IF v.op = "Constant" /\ v.ty \in NumericTypes
         THEN [err |-> NoError,
               found |-> <<[name |-> const_name,
                            value |-> PyVal(v.ty, <<>>)]>>]
         ELSE [err |-> NoError, found |-> <<>>]

RECURSIVE found_constant_calls(_)
\* the visit of a section tree: [err, found]
found_constant_calls(calls) ==
    IF calls = <<>> THEN [err |-> NoError, found |-> <<>>]
    ELSE LET r == visit_Call(Head(calls)) IN
         IF r.err # NoError THEN r
         ELSE LET rest == found_constant_calls(Tail(calls)) IN
              [err |-> rest.err, found |-> r.found \o rest.found]

\* ConstantManager.__init__: collect_initial_constants over the INITIAL scope
CollectInitialConstants ==
    /\ tablePhase = "new"
    /\ \E scope \in InitialScopes :
         LET r == SetConstants(InitialTable, scope) IN
         /\ constant_table' = r.constants
         /\ tableError' = r.err
         /\ tablePhase' = IF r.err = NoError THEN "collecting" ELSE "failed"
    /\ UNCHANGED notTable

\* ConstantManager.collect on the tree of one section
Collect ==
    /\ tablePhase = "collecting"
    /\ \E calls \in SectionsOfCalls :
         LET v == found_constant_calls(calls)
             r == IF v.err # NoError
                  THEN [constants |-> constant_table, err |-> v.err]
                  ELSE SetConstants(constant_table, v.found) IN
         /\ constant_table' = r.constants
         /\ tableError' = r.err
         /\ tablePhase' = IF r.err = NoError THEN "collecting" ELSE "failed"
    /\ UNCHANGED notTable

\* an explicit registration through set_constant
SetConstantExplicitly ==
    /\ tablePhase = "collecting"
    /\ \E name \in TableNames \cup {[ty |-> "int", s |-> "5"]},
          value \in PyValues :
         LET r == ConstantManager_set_constant(constant_table, name, value) IN
         /\ constant_table' = r.constants
         /\ tableError' = r.err
         /\ tablePhase' = IF r.err = NoError THEN "collecting" ELSE "failed"
    /\ UNCHANGED notTable

TableInit ==
    /\ constant_table = InitialTable
    /\ tableError = NoError
    /\ tablePhase = "new"

\* no constant is being ingested
TableIdle == TableInit

\* C25: every entry of the constant table has a string name and a value that
\* is an integer, a float, a boolean, or a list whose elements are all
\* integers, floats or booleans.
C25_ConstantTableTypes ==
    \A i \in 1..Len(constant_table) :
        /\ constant_table[i].name.ty = "str"
        /\ \/ constant_table[i].value.ty \in NumericTypes
           \/ /\ constant_table[i].value.ty = "list"
              /\ \A j \in 1..Len(constant_table[i].value.elts) :
                    constant_table[i].value.elts[j] \in NumericTypes

(***************************************************************************)
(* DelayBuffer and AcslLib.delay.  Times are counted in halves of the      *)
(* spacing of the pre-filled rows (0.005), so that a requested time can    *)
(* lie strictly between two row times; values are integers and an          *)
(* interpolated value is the fraction num/den.                             *)
(***************************************************************************)
MaxNmx == 2
MaxAdds == 5
MaxDelayTime == 8

\* DelayBuffer.__init__: time_spacing = 0.01
time_spacing == 2

Row(time, value) == [time |-> time, value |-> value]
LookupOutcome(err, num, den) == [err |-> err, num |-> num, den |-> den]
RuntimeError(m) == [kind |-> "RuntimeError", msg |-> m, names |-> {}]
NoLookup == [current_time |-> 0, tdl |-> 0, outcome |-> LookupOutcome(NoError, 0, 1)]

\* float("-inf") and finite floats
MinusInfinity == [finite |-> FALSE, v |-> 0]
Finite(v) == [finite |-> TRUE, v |-> v]

\* DelayBuffer.__init__: 2*nmx rows holding ic, at times spaced backwards
\* from initial_time (np.linspace)
DelayBuffer(nmx, ic, initial_time) ==
    [max_size |-> 2 * nmx,
     buffer |-> [i \in 1..(2 * nmx) |->
                    Row(initial_time - (2 * nmx - i) * time_spacing, ic)],
     head |-> 0, tail |-> 0, actual_data_points |-> 0, ic |-> ic]

\* the object held by the variables
ThisBuffer ==
    [max_size |-> max_size, buffer |-> buffer, head |-> head, tail |-> tail,
     actual_data_points |-> actual_data_points, ic |-> buffer_ic]

\* an add that moves head on every call
add_moving_head(b, current_time, value) ==
    [b EXCEPT !.buffer[b.tail + 1] = Row(current_time, value),
              !.tail = (b.tail + 1) % b.max_size,
              !.actual_data_points =
                  IF @ < b.max_size THEN @ + 1 ELSE @,
              !.head = (@ + 1) % b.max_size]

\* DelayBuffer.add
add(b, current_time, value) ==
    [b EXCEPT !.buffer[b.tail + 1] = Row(current_time, value),
              !.tail = (b.tail + 1) % b.max_size,
              !.actual_data_points =
                  IF @ < b.max_size THEN @ + 1 ELSE @,
              !.head = IF b.actual_data_points < b.max_size THEN @
                       ELSE (@ + 1) % b.max_size]

RECURSIVE searchsorted_right(_, _, _, _)
\* np.searchsorted(times, x, side="right"): the binary search, whatever the
\* order of times
searchsorted_right(times, x, lo, hi) ==
    IF lo >= hi THEN lo
    ELSE LET mid == lo + ((hi - lo) \div 2) IN
         IF times[mid + 1] <= x
         THEN searchsorted_right(times, x, mid + 1, hi)
         ELSE searchsorted_right(times, x, lo, mid)

\* the rows as get_delayed_value reads them: all rows in storage order
\* before the buffer has wrapped, from head round to head after
RowsRead(b) ==
    IF b.actual_data_points < b.max_size THEN b.buffer
    ELSE SubSeq(b.buffer, b.head + 1, b.max_size)
            \o SubSeq(b.buffer, 1, b.head)

\* DelayBuffer.get_delayed_value
get_delayed_value(b, current_time, tdl) ==
    IF tdl <= 0
    THEN LookupOutcome(ValueError("Delay time (tdl) must be greater than 0"), 0, 1)
    ELSE LET required_past_time == current_time - tdl
             rows == RowsRead(b)
             times == [i \in 1..Len(rows) |-> rows[i].time]
             ic_end == b.max_size - b.actual_data_points
             earliest_actual_time ==
                 IF b.actual_data_points < b.max_size
                 THEN b.buffer[ic_end + 1].time
                 ELSE times[1]
             idx == searchsorted_right(times, required_past_time, 0,
                                       Len(times)) IN
         IF b.actual_data_points = 0 THEN LookupOutcome(NoError, b.ic, 1)
         ELSE IF /\ required_past_time < earliest_actual_time
                 /\ b.actual_data_points < b.max_size
         THEN LookupOutcome(NoError, b.ic, 1)
         ELSE IF required_past_time < times[1]
         THEN LookupOutcome(RuntimeError("Not enough data points in delay buffer"),
                       0, 1)
         ELSE IF idx = 0 THEN LookupOutcome(NoError, rows[1].value, 1)
         ELSE IF idx = Len(times)
         THEN LookupOutcome(NoError, rows[Len(rows)].value, 1)
         ELSE LET r1 == rows[idx]
                  r2 == rows[idx + 1] IN
              IF r2.time = r1.time THEN LookupOutcome(NoError, r1.value, 1)
              ELSE LookupOutcome(NoError,
                      r1.value * (r2.time - r1.time)
                        + (r2.value - r1.value) * (required_past_time - r1.time),
                      r2.time - r1.time)

SetBuffer(b) ==
    /\ buffer' = b.buffer
    /\ head' = b.head
    /\ tail' = b.tail
    /\ actual_data_points' = b.actual_data_points
    /\ max_size' = b.max_size
    /\ buffer_ic' = b.ic

\* the delayed variable x as a function of simulated time
Signal(now) == 10 + 5 * now
LookupDelays == {1, 3, 5}

\* DelayBuffer.add at the current time
BufferAdd ==
    /\ delay_buffers
    /\ adds < MaxAdds
    /\ SetBuffer(add(ThisBuffer, lib_t, Signal(lib_t)))
    /\ adds' = adds + 1
    /\ UNCHANGED <<lookup, delay_buffers, last_updated_time, last_update_time,
                   lib_t, lib_step_size, delay_site, delayError>>
    /\ UNCHANGED notDelay

\* DelayBuffer.get_delayed_value at the current time
BufferLookup ==
    /\ delay_buffers
    /\ \E tdl \in LookupDelays :
         LET r == get_delayed_value(ThisBuffer, lib_t, tdl) IN
         /\ lookup' = [current_time |-> lib_t, tdl |-> tdl, outcome |-> r]
         /\ delayError' = r.err
    /\ UNCHANGED <<buffer, head, tail, actual_data_points, max_size,
                   buffer_ic, adds, delay_buffers, last_updated_time,
                   last_update_time, lib_t, lib_step_size, delay_site>>
    /\ UNCHANGED notDelay

\* the driver's self.t += self.step_size between two uses of the buffer
TimePasses ==
    /\ lib_t < MaxDelayTime
    /\ lib_t' = lib_t + lib_step_size
    /\ UNCHANGED <<buffer, head, tail, actual_data_points, max_size,
                   buffer_ic, adds, lookup, delay_buffers, last_updated_time,
                   last_update_time, lib_step_size, delay_site, delayError>>
    /\ UNCHANGED notDelay

\* a buffer created with nmx at time 0
BufferInit(nmxs) ==
    /\ \E nmx \in nmxs :
         LET b == DelayBuffer(nmx, 7, 0) IN
         /\ buffer = b.buffer
         /\ head = b.head
         /\ tail = b.tail
         /\ actual_data_points = b.actual_data_points
         /\ max_size = b.max_size
         /\ buffer_ic = b.ic
         /\ delay_site = [tdl |-> 1, nmx |-> nmx, delmin |-> 2, has_id |-> TRUE]
    /\ adds = 0
    /\ lookup = NoLookup
    /\ delay_buffers = TRUE
    /\ last_updated_time = MinusInfinity
    /\ last_update_time = MinusInfinity
    /\ lib_t = 0
    /\ lib_step_size = 2
    /\ delayError = NoError

\* AcslLib.__init__: _delay_buffers = {}
NoBuffer ==
    /\ buffer = <<>>
    /\ head = 0
    /\ tail = 0
    /\ actual_data_points = 0
    /\ max_size = 0
    /\ buffer_ic = 0
    /\ adds = 0
    /\ lookup = NoLookup
    /\ delay_buffers = FALSE
    /\ last_updated_time = MinusInfinity
    /\ last_update_time = MinusInfinity
    /\ lib_t = 0
    /\ lib_step_size = 2
    /\ delayError = NoError

\* no delay call site is under study
DelayIdle ==
    /\ NoBuffer
    /\ delay_site = [tdl |-> 1, nmx |-> 1, delmin |-> 2, has_id |-> FALSE]

\* the samples added so far that the buffer still holds, oldest first: add
\* writes row tail, so before the buffer has wrapped they are rows 0..adds-1
RealSamples ==
    IF actual_data_points < max_size
    THEN SubSeq(buffer, 1, actual_data_points)
    ELSE RowsRead(ThisBuffer)

ReturnsIc(outcome) ==
    outcome.err = NoError /\ outcome.num = buffer_ic * outcome.den

\* the last lookup was made on the buffer as it is now
LookupIsCurrent ==
    /\ lookup # NoLookup
    /\ lookup.current_time = lib_t

\* C26: while the buffer has not wrapped, a lookup of a time before the
\* earliest sample added returns ic; the not-enough-history error is raised
\* only when the buffer has wrapped and the requested time precedes its
\* earliest row.
C26_EarlyLookupReturnsIc ==
    LookupIsCurrent =>
        LET required_past_time == lookup.current_time - lookup.tdl IN
        /\ (/\ actual_data_points > 0
            /\ actual_data_points < max_size
            /\ required_past_time < RealSamples[1].time)
              => ReturnsIc(lookup.outcome)
        /\ lookup.outcome.err.kind = "RuntimeError"
              => /\ actual_data_points = max_size
                 /\ required_past_time < RealSamples[1].time

\* C28: a buffer created with nmx always keeps 2*nmx rows, head and tail stay
\* within 0..2*nmx-1, actual_data_points is the number of adds capped at
\* 2*nmx, head is 0 as long as no more than 2*nmx samples have been added,
\* and from 2*nmx adds on head equals tail and the row at head is the oldest
\* sample retained.
C28_BufferShape ==
    /\ Len(buffer) = 2 * delay_site.nmx
    /\ max_size = 2 * delay_site.nmx
    /\ head \in 0..(max_size - 1)
    /\ tail \in 0..(max_size - 1)
    /\ actual_data_points = Min(adds, max_size)
    /\ tail = adds % max_size
    /\ adds <= max_size => head = 0
    /\ adds >= max_size =>
          /\ head = tail
          /\ \A i \in 1..max_size : buffer[head + 1].time <= buffer[i].time

\* the buffer has wrapped and dropped its first sample
C28_Witness ==
    /\ adds > max_size
    /\ head = 1
    /\ lib_t > 0

\* current_time - buffer_info["last_updated_time"] >= min_interval
ElapsedAtLeast(now, last, min_interval) ==
    IF last.finite THEN now - last.v >= min_interval ELSE TRUE

Max(a, b) == IF a >= b THEN a ELSE b

\* the checks that open AcslLib.delay
DelayArgumentError(site) ==
    IF site.tdl <= 0
    THEN ValueError("Delay time (tdl) must be greater than 0")
    ELSE IF site.nmx < 1
    THEN ValueError("Maximum data points (nmx) must be at least 1")
    ELSE IF site.delmin <= 0
    THEN ValueError("Minimum interval (delmin) must be greater than 0")
    ELSE IF ~site.has_id
    THEN ValueError("Delay buffer identifier (id) must be provided")
    ELSE NoError

\* AcslLib.delay(x, ic, tdl, nmx, delmin, delay_id) at the call site, x being
\* the signal at the current time
Delay ==
    /\ adds < MaxAdds
    /\ LET err == DelayArgumentError(delay_site) IN
       IF err # NoError
       THEN /\ delayError' = err
            /\ UNCHANGED <<buffer, head, tail, actual_data_points, max_size,
                           buffer_ic, adds, lookup, delay_buffers,
                           last_updated_time, last_update_time>>
       ELSE LET b0 == IF delay_buffers THEN ThisBuffer
                      ELSE DelayBuffer(delay_site.nmx, 7, lib_t)
                info_last_updated_time ==
                    IF delay_buffers THEN last_updated_time ELSE MinusInfinity
                min_interval == Max(delay_site.delmin, lib_step_size)
                saves == ElapsedAtLeast(lib_t, info_last_updated_time,
                                        min_interval)
                b1 == IF saves THEN add(b0, lib_t, Signal(lib_t)) ELSE b0
                r == get_delayed_value(b1, lib_t, delay_site.tdl) IN
            /\ delay_buffers' = TRUE
            /\ last_updated_time' = info_last_updated_time
            /\ last_update_time' = IF saves THEN Finite(lib_t)
                                   ELSE IF delay_buffers THEN last_update_time
                                   ELSE MinusInfinity
            /\ SetBuffer(b1)
            /\ adds' = IF saves THEN adds + 1 ELSE adds
            /\ lookup' = [current_time |-> lib_t, tdl |-> delay_site.tdl,
                          outcome |-> r]
            /\ delayError' = r.err
    /\ UNCHANGED <<lib_t, lib_step_size, delay_site>>
    /\ UNCHANGED notDelay

\* AcslLib.__init__: no buffer yet; the call site's arguments are fixed
DelayCallsInit(tdls, nmxs, delmins) ==
    /\ NoBuffer
    /\ delay_site \in [tdl : tdls, nmx : nmxs, delmin : delmins,
                       has_id : BOOLEAN]

\* the sample saved last, once one has been saved
LastSaved == buffer[((tail + max_size - 1) % max_size) + 1]

\* C27: a call of delay saves a new sample only when at least
\* max(delmin, step_size) of simulated time has passed since the sample it
\* saved last, so two consecutive saved samples are at least delmin apart.
C27_SamplesAtLeastDelminApart ==
    [][(adds >= 1 /\ adds' = adds + 1) =>
          /\ lib_t - LastSaved.time >= Max(delay_site.delmin, lib_step_size)
          /\ LastSaved'.time - LastSaved.time >= delay_site.delmin]_delayVars

(***************************************************************************)
(* AcslLib.integ and the frame of its caller.  A local is bound to an      *)
(* object: obj is the object's identity, ty and v its type and value.      *)
(* Whether two ints of equal value computed apart are one object is left   *)
(* to the interpreter (CPython keeps one object per small int); a float    *)
(* computed by an expression is a new object.                              *)
(***************************************************************************)
MaxFrameStmts == 4

Binding(name, obj, ty, v) == [name |-> name, obj |-> obj, ty |-> ty, v |-> v]
LocalNames(locals) == {locals[i].name : i \in 1..Len(locals)}
GetLocal(locals, n) == locals[CHOOSE i \in 1..Len(locals) : locals[i].name = n]
\* a store to a local: a parameter or a local bound before keeps its place
\* in f_locals, a new local comes last
StoreLocal(locals, b) ==
    IF b.name \in LocalNames(locals)
    THEN [i \in 1..Len(locals) |->
             IF locals[i].name = b.name THEN b ELSE locals[i]]
    ELSE Append(locals, b)

\* statements of a DERIVATIVE section over the state variables y and z
AliasStmt(target, source) ==
    [kind |-> "alias", target |-> target, source |-> source, law |-> ""]
ComputeStmt(target, law) ==
    [kind |-> "compute", target |-> target, source |-> "", law |-> law]
IntegCallStmt(target, written, ic_name) ==
    [kind |-> "integ", target |-> target, source |-> written, law |-> ic_name]

\* the numbers constants and state variables are given
FrameValues == {-1, 1, 2}

FrameStatements ==
    { ComputeStmt("dy", "0-k*z"),
      AliasStmt("dz", "y"),
      ComputeStmt("dz", "k*y"),
      IntegCallStmt("y", "dy", "y0"),
      IntegCallStmt("z", "dz", "z0") }

\* bodies in which every integ call follows the assignment of its derivative
FrameBodies ==
    {f \in UNION {[1..m -> FrameStatements] : m \in 1..MaxFrameStmts} :
        /\ Injective(f)
        /\ \A i \in DOMAIN f : f[i].kind = "integ" =>
              \E j \in 1..(i - 1) :
                  f[j].kind # "integ" /\ f[j].target = f[i].source}

\* the names under which the synthesizer registers kernels for these bodies
RegisteredKernels == {"dy", "dz"}

\* the value of a right-hand side in the frame
EvalLaw(law, locals) ==
    IF law = "0-k*z" THEN 0 - GetLocal(locals, "k").v * GetLocal(locals, "z").v
    ELSE GetLocal(locals, "k").v * GetLocal(locals, "y").v

\* the loop of AcslLib.integ over frame.f_locals.items(): the first local
\* that is the object passed as deriv
FirstLocalBoundTo(locals, obj) ==
    LET hits == {i \in 1..Len(locals) : locals[i].obj = obj} IN
    IF hits = {} THEN "None"
    ELSE locals[CHOOSE i \in hits : \A j \in hits : i <= j].name

\* an assignment statement of the section is executed
ExecAssign ==
    /\ frame_pc <= Len(frame_body)
    /\ frame_body[frame_pc].kind \in {"alias", "compute"}
    /\ frameError = NoError
    /\ LET stmt == frame_body[frame_pc] IN
       IF stmt.kind = "alias"
       THEN LET src == GetLocal(f_locals, stmt.source) IN
            /\ f_locals' = StoreLocal(f_locals,
                              Binding(stmt.target, src.obj, src.ty, src.v))
            /\ UNCHANGED next_obj
       ELSE LET ty == GetLocal(f_locals, "k").ty
                v == EvalLaw(stmt.law, f_locals)
                same == {f_locals[i].obj : i \in
                           {j \in 1..Len(f_locals) :
                               f_locals[j].ty = "int" /\ f_locals[j].v = v}} IN
            \E obj \in {next_obj} \cup (IF ty = "int" THEN same ELSE {}) :
                /\ f_locals' = StoreLocal(f_locals,
                                  Binding(stmt.target, obj, ty, v))
                /\ next_obj' = next_obj + 1
    /\ frame_pc' = frame_pc + 1
    /\ UNCHANGED <<frame_body, integ_requests, frameError>>
    /\ UNCHANGED notFrame

\* target = self.integ(written, ic): AcslLib.integ looks the derivative's
\* name up in the caller's frame and asks the manager for that kernel; the
\* value returned is a new float
ExecInteg ==
    /\ frame_pc <= Len(frame_body)
    /\ frame_body[frame_pc].kind = "integ"
    /\ frameError = NoError
    /\ LET stmt == frame_body[frame_pc]
           deriv == GetLocal(f_locals, stmt.source)
           deriv_name == FirstLocalBoundTo(f_locals, deriv.obj) IN
       /\ integ_requests' = Append(integ_requests,
              [written |-> stmt.source, deriv_name |-> deriv_name])
       /\ IF deriv_name \in RegisteredKernels
          THEN /\ \E v \in FrameValues :
                    f_locals' = StoreLocal(f_locals,
                                   Binding(stmt.target, next_obj, "float", v))
               /\ next_obj' = next_obj + 1
               /\ UNCHANGED frameError
          ELSE /\ frameError' = KeyError(deriv_name)
               /\ UNCHANGED <<f_locals, next_obj>>
    /\ frame_pc' = frame_pc + 1
    /\ UNCHANGED frame_body
    /\ UNCHANGED notFrame

\* the section is called with t, the constants and the state variables; on
\* the first call a state variable is the very object of its initial
\* condition (_get_initial_arguments), later it is an object of its own
FrameInit(bodies) ==
    /\ frame_body \in bodies
    /\ frame_pc = 1
    /\ \E ty \in {"int", "float"}, k \in Rates, y0 \in FrameValues,
          z0 \in FrameValues, first_call \in BOOLEAN :
         f_locals =
            << Binding("t", 1, ty, 0), Binding("k", 2, ty, k),
               Binding("y0", 3, ty, y0), Binding("z0", 4, ty, z0),
               Binding("y", IF first_call THEN 3 ELSE 5, ty, y0),
               Binding("z", IF first_call THEN 4 ELSE 6, ty, z0) >>
    /\ next_obj = 7
    /\ integ_requests = <<>>
    /\ frameError = NoError

\* no section frame is under study
FrameIdle ==
    /\ frame_body = <<>>
    /\ frame_pc = 1
    /\ f_locals = <<>>
    /\ next_obj = 1
    /\ integ_requests = <<>>
    /\ frameError = NoError

\* C29: every integ(deriv, ic) call asks the Integration Manager for the
\* kernel registered under the name of the variable written as its first
\* argument, whatever the other locals of the calling section hold.
C29_KernelOfWrittenName ==
    \A i \in 1..Len(integ_requests) :
        integ_requests[i].deriv_name = integ_requests[i].written

(***************************************************************************)
(* Termination of the dependency walk on trees the sorter accepted         *)
(***************************************************************************)
\* the while loop of _create_dependency_map is running on a sorted tree
Walking == sortPhase = "sorted" /\ synthPhase = "walking"

\* the name the next iteration handles is one of the loop's two branches
NameIsHandled ==
    var_to_calc \in synth_constants \cup MapKeys(assignments)

\* past the first iteration the name was never handled before in this walk
NameIsNew == dependencies # <<>> => var_to_calc \notin calculated_vars

\* C30: for every section tree the sorter accepted, each walk of the
\* derivative synthesizer ends: every name the loop reaches is a constant, a
\* state variable or an assigned name, no name is handled twice in one walk,
\* and every walk that starts is followed by the end of all walks
C30_WalkTerminates ==
    /\ [](Walking => NameIsHandled /\ NameIsNew)
    /\ (Walking ~> synthPhase \in {"walked", "done"})

\* the walk is over, and it reached a both directly from dy and through b
C30_Witness ==
    /\ synthPhase = "walked"
    /\ {"a", "b", "dy"} \subseteq MapKeys(assignments)
    /\ MapGet(assignments, "dy").dependencies = <<"a", "b">>
    /\ MapGet(assignments, "b").dependencies = <<"a", "k">>
    /\ {"a", "b"} \subseteq DepKeys(dependencies)

(***************************************************************************)
(* Specifications                                                          *)
(***************************************************************************)
vars == <<sortVars, synthVars, coordVars, runVars, modelVars, managerVars, reportVars, dryVars, coupledVars, traceVars, tableVars, delayVars, frameVars>>

SynthNext ==
    \/ SynthStart
    \/ WalkStep
    \/ CreateDerivativeFunctions

\* the sorter on every authored body
InitSort == SortInit(Bodies(MaxStmts)) /\ SynthIdle /\ CoordIdle /\ RunIdle /\ ModelIdle /\ ManagerIdle /\ ReportIdle /\ DryIdle /\ CoupledIdle /\ TraceIdle /\ TableIdle /\ DelayIdle /\ FrameIdle
SpecSort == InitSort /\ [][SortNext]_vars

\* the sorter on a body and then on the same statements in another order
InitShuffle == SortInit(Bodies(MaxShuffleStmts)) /\ SynthIdle /\ CoordIdle /\ RunIdle /\ ModelIdle /\ ManagerIdle /\ ReportIdle /\ DryIdle /\ CoupledIdle /\ TraceIdle /\ TableIdle /\ DelayIdle /\ FrameIdle
NextShuffle == SortNext \/ Resubmit
SpecShuffle == InitShuffle /\ [][NextShuffle]_vars

\* the sorter followed by the derivative synthesizer on the sorted tree
InitSynth == SortInit(SynthBodies(MaxStmts)) /\ SynthIdle /\ CoordIdle /\ RunIdle /\ ModelIdle /\ ManagerIdle /\ ReportIdle /\ DryIdle /\ CoupledIdle /\ TraceIdle /\ TableIdle /\ DelayIdle /\ FrameIdle
NextSynth == SortNext \/ SynthNext
SpecSynth == InitSynth /\ [][NextSynth]_vars

\* the build coordinator: constant registration, then the CINT resolution
InitCoord ==
    /\ SortInit({<<>>}) /\ SynthIdle
    /\ CoordInit(CallerCINTs, DynamicSettings)
    /\ RunIdle
    /\ ModelIdle
    /\ ManagerIdle
    /\ ReportIdle
    /\ DryIdle
    /\ CoupledIdle
    /\ TraceIdle
    /\ TableIdle
    /\ DelayIdle
    /\ FrameIdle
NextCoord == SetConstant \/ ResolveCINT
SpecCoord == InitCoord /\ [][NextCoord]_vars

\* the simulation driver, from construction to the returned table
InitRun ==
    /\ SortInit({<<>>}) /\ SynthIdle /\ CoordIdle
    /\ RunInit(0..MaxStop, 1..MaxCINT, 1..MaxCINT, 1..MaxNSTP)
    /\ ModelIdle
    /\ ManagerIdle
    /\ ReportIdle
    /\ DryIdle
    /\ CoupledIdle
    /\ TraceIdle
    /\ TableIdle
    /\ DelayIdle
    /\ FrameIdle
NextRun ==
    \/ InitializeIntegrationRoutine
    \/ FirstSample
    \/ LoopIteration
    \/ GetFinalResults
SpecRun == InitRun /\ [][NextRun]_vars


\* the construction of a model class
InitModel ==
    /\ SortInit({<<>>}) /\ SynthIdle /\ CoordIdle /\ RunIdle
    /\ ModelInit(ModelClasses(MaxMethods))
    /\ ManagerIdle
    /\ ReportIdle
    /\ DryIdle
    /\ CoupledIdle
    /\ TraceIdle
    /\ TableIdle
    /\ DelayIdle
    /\ FrameIdle
NextModel ==
    \/ ValidateMember
    \/ ValidateDynamic
    \/ FinishConstruction
SpecModel == InitModel /\ [][NextModel]_vars


\* the integration manager: construction, then one integration request
InitManager ==
    /\ SortInit({<<>>}) /\ SynthIdle /\ CoordIdle /\ ModelIdle
    /\ RunInit({0}, {6, 12}, {6, 12}, {1})
    /\ ManagerInit(0..11)
    /\ ReportIdle
    /\ DryIdle
    /\ CoupledIdle
    /\ TraceIdle
    /\ TableIdle
    /\ DelayIdle
    /\ FrameIdle
NextManager == ConstructManager \/ Integrate
SpecManager == InitManager /\ [][NextManager]_vars


\* the simulation driver under fair scheduling: the interpreter runs the next
\* statement of run whenever there is one
InitRunLive ==
    /\ SortInit({<<>>}) /\ SynthIdle /\ CoordIdle
    /\ RunInit(0..MaxLiveStop, 1..MaxCINT, 0..MaxCINT, 1..MaxNSTP)
    /\ ModelIdle
    /\ ManagerIdle
    /\ ReportIdle
    /\ DryIdle
    /\ CoupledIdle
    /\ TraceIdle
    /\ TableIdle
    /\ DelayIdle
    /\ FrameIdle
SpecRunLive == InitRunLive /\ [][NextRun]_vars /\ WF_vars(NextRun)


\* the report list, from the build call to the columns of the results table
InitReport ==
    /\ SortInit({<<>>}) /\ SynthIdle /\ CoordIdle /\ RunIdle /\ ModelIdle
    /\ ManagerIdle
    /\ ReportInit({NoReport} \cup {Val("list", l) : l \in ReportLists(MaxReport)},
                  StatevarNames)
    /\ DryIdle
    /\ CoupledIdle
    /\ TraceIdle
    /\ TableIdle
    /\ DelayIdle
    /\ FrameIdle
NextReport == BuildKeepsReport \/ ConstructRun
SpecReport == InitReport /\ [][NextReport]_vars


\* the initial dry run of DERIVATIVE and DYNAMIC
InitDry ==
    /\ SortInit({<<>>}) /\ SynthIdle /\ CoordIdle /\ RunIdle /\ ModelIdle
    /\ ManagerIdle /\ ReportIdle
    /\ DryInit(DryDerivatives, DryDynamics, DryConstantSets)
    /\ CoupledIdle
    /\ TraceIdle
    /\ TableIdle
    /\ DelayIdle
    /\ FrameIdle
NextDry == DryRunDerivative \/ DryRunDynamic
SpecDry == InitDry /\ [][NextDry]_vars


\* the sorter on sections that hold a procedural block
InitProcedural ==
    /\ SortInit(ProceduralBodies(MaxProcStmts)) /\ SynthIdle /\ CoordIdle
    /\ RunIdle /\ ModelIdle /\ ManagerIdle /\ ReportIdle /\ DryIdle
    /\ CoupledIdle
    /\ TraceIdle
    /\ TableIdle
    /\ DelayIdle
    /\ FrameIdle
SpecProcedural == InitProcedural /\ [][SortNext]_vars


\* the sorter and the synthesizer on sections whose state variables may share
\* a derivative
InitShared ==
    /\ SortInit(SharedBodies(MaxSharedStmts)) /\ SynthIdle /\ CoordIdle
    /\ RunIdle /\ ModelIdle /\ ManagerIdle /\ ReportIdle /\ DryIdle
    /\ CoupledIdle
    /\ TraceIdle
    /\ TableIdle
    /\ DelayIdle
    /\ FrameIdle
SpecShared == InitShared /\ [][NextSynth]_vars


\* the simulation driver on the model with two coupled state variables
InitCoupled ==
    /\ SortInit({<<>>}) /\ SynthIdle /\ CoordIdle /\ ModelIdle
    /\ ReportIdle /\ DryIdle
    /\ CoupledInit(0..MaxCoupledStop, {1, 2}, {1, 2}, {1})
    /\ TraceIdle
    /\ TableIdle
    /\ DelayIdle
    /\ FrameIdle
NextCoupled ==
    \/ CoupledInitialize
    \/ CoupledFirstSample
    \/ CoupledLoopIteration
    \/ CoupledFinish
SpecCoupled == InitCoupled /\ [][NextCoupled]_vars


InitTrace ==
    /\ RunInit(0..MaxTraceStop, 1..MaxCINT, 1..MaxCINT, 1..MaxNSTP)
    /\ TraceInit
    /\ SortInit({<<>>}) /\ SynthIdle /\ CoordIdle /\ ModelIdle /\ ManagerIdle
    /\ ReportIdle /\ DryIdle /\ CoupledIdle
    /\ TableIdle
    /\ DelayIdle
    /\ FrameIdle
NextTrace ==
    \/ TracedInitialize
    \/ TracedFirstSample
    \/ TracedLoopIteration
    \/ TracedFinish
SpecTrace == InitTrace /\ [][NextTrace]_vars


\* the sorter on sections that hold delay call sites
InitDelay ==
    /\ SortInit(DelayBodies(MaxDelayStmts)) /\ SynthIdle /\ CoordIdle
    /\ RunIdle /\ ModelIdle /\ ManagerIdle /\ ReportIdle /\ DryIdle
    /\ CoupledIdle /\ TraceIdle
    /\ TableIdle
    /\ DelayIdle
    /\ FrameIdle
SpecDelay == InitDelay /\ [][SortNext]_vars


\* the sorter on sections that hold annotated assignments
InitAnnotated ==
    /\ SortInit(AnnotatedBodies(MaxAnnStmts)) /\ SynthIdle /\ CoordIdle
    /\ RunIdle /\ ModelIdle /\ ManagerIdle /\ ReportIdle /\ DryIdle
    /\ CoupledIdle /\ TraceIdle
    /\ TableIdle
    /\ DelayIdle
    /\ FrameIdle
SpecAnnotated == InitAnnotated /\ [][SortNext]_vars


\* the sorter on sections whose assignments have targets of every form
InitTargets ==
    /\ SortInit(TargetBodies(MaxTargetStmts)) /\ SynthIdle /\ CoordIdle
    /\ RunIdle /\ ModelIdle /\ ManagerIdle /\ ReportIdle /\ DryIdle
    /\ CoupledIdle /\ TraceIdle
    /\ TableIdle
    /\ DelayIdle
    /\ FrameIdle
SpecTargets == InitTargets /\ [][SortNext]_vars


\* the constant table under its three ingestion paths
InitTable ==
    /\ SortInit({<<>>}) /\ SynthIdle /\ CoordIdle /\ RunIdle /\ ModelIdle
    /\ ManagerIdle /\ ReportIdle /\ DryIdle /\ CoupledIdle /\ TraceIdle
    /\ TableInit
    /\ DelayIdle
    /\ FrameIdle
NextTable ==
    \/ CollectInitialConstants
    \/ Collect
    \/ SetConstantExplicitly
SpecTable == InitTable /\ [][NextTable]_vars


\* a delay buffer under adds and lookups
InitBuffer ==
    /\ SortInit({<<>>}) /\ SynthIdle /\ CoordIdle /\ RunIdle /\ ModelIdle
    /\ ManagerIdle /\ ReportIdle /\ DryIdle /\ CoupledIdle /\ TraceIdle
    /\ TableIdle
    /\ BufferInit(1..MaxNmx)
    /\ FrameIdle
NextBuffer ==
    \/ BufferAdd
    \/ BufferLookup
    \/ TimePasses
SpecBuffer == InitBuffer /\ [][NextBuffer]_vars


\* one delay call site called again and again while time moves on
InitDelayCalls ==
    /\ SortInit({<<>>}) /\ SynthIdle /\ CoordIdle /\ RunIdle /\ ModelIdle
    /\ ManagerIdle /\ ReportIdle /\ DryIdle /\ CoupledIdle /\ TraceIdle
    /\ TableIdle
    /\ DelayCallsInit({0, 1, 3}, 0..MaxNmx, {0, 2, 4})
    /\ FrameIdle
NextDelayCalls ==
    \/ Delay
    \/ TimePasses
SpecDelayCalls == InitDelayCalls /\ [][NextDelayCalls]_vars


\* a section running statement by statement, its integ calls inspecting
\* the frame
InitFrame ==
    /\ SortInit({<<>>}) /\ SynthIdle /\ CoordIdle /\ RunIdle /\ ModelIdle
    /\ ManagerIdle /\ ReportIdle /\ DryIdle /\ CoupledIdle /\ TraceIdle
    /\ TableIdle /\ DelayIdle
    /\ FrameInit(FrameBodies)
NextFrame ==
    \/ ExecAssign
    \/ ExecInteg
SpecFrame == InitFrame /\ [][NextFrame]_vars


\* the sorter followed by the derivative synthesizer; the while loop of
\* _create_dependency_map is sequential code, so an iteration that can run
\* does run
SpecSynthLive == InitSynth /\ [][NextSynth]_vars /\ WF_vars(WalkStep)

=============================================================================
